---- MODULE Spec2Model ----
(***************************************************************************)
(* Verification model of the structural parsing and validation engine for  *)
(* Brazilian statutes: parser.py (normalisation, hierarchy, articles),      *)
(* crossref.py (cross-reference extraction), validator.py (structural       *)
(* report) and the quality gate of pipeline.py.                             *)
(*                                                                          *)
(* Text is a sequence of characters.  A character is an atom written as a   *)
(* string: an ASCII character stands for itself; the others are named       *)
(*   "NL" line feed      "CR" carriage return   "TAB" tab   "SP" space      *)
(*   "FF" form feed      "NBSP" U+00A0          "BOX" U+2551                *)
(*   "ordm" U+00BA (o.)  "deg" U+00B0           "sect" U+00A7 (paragraph)   *)
(*   "ndash" U+2013      "mdash" U+2014         "x96" U+0096                *)
(*   "QUOT" U+0022       "APOS" U+0027                                      *)
(*   "Aac" "aac" A/a acute   "Iac" "iac" I/i acute   "Uac" "uac" U/u acute  *)
(*   "Atil" "atil" A/a tilde "Cced" "cced" C/c cedilla "Eci" "eci" E/e circ *)
(*   "igr" i grave           "Oac" "oac" O/o acute                          *)
(*   "Otil" "otil" O/o tilde                                                *)
(* Regular expressions of the source are written as syntax trees and run    *)
(* by a backtracking matcher with the semantics of Python's re module       *)
(* (leftmost match, greedy quantifiers, ordered alternation).               *)
(***************************************************************************)
EXTENDS Integers, Sequences, FiniteSets, TLC

VARIABLES pc, raw, texto, texto2, doc, refs, relatorio, saida,
          codigos, idx, resultados, erros, lote,
          relogio, limiter, fios, retornos, cache, http, ret

\* the locals of run_batch
loteVars == <<codigos, idx, resultados, erros, lote>>

\* the clock, the rate limiter, the threads that call it, the calls that
\* returned, the cache of downloaded pages and the HTTP requests made
limVars == <<relogio, limiter, fios, retornos, cache, http>>

vars ==
  <<pc, raw, texto, texto2, doc, refs, relatorio, saida, loteVars, limVars, ret>>

(***************************************************************************)
(* Characters and character classes                                         *)
(***************************************************************************)
UpperChars == <<"A","B","C","D","E","F","G","H","I","J","K","L","M","N","O",
                "P","Q","R","S","T","U","V","W","X","Y","Z",
                "Aac","Iac","Uac","Atil","Cced","Eci","Oac","Otil">>

LowerChars == <<"a","b","c","d","e","f","g","h","i","j","k","l","m","n","o",
                "p","q","r","s","t","u","v","w","x","y","z",
                "aac","iac","uac","atil","cced","eci","oac","otil">>

Lower(c) ==
  IF \E k \in 1..Len(UpperChars) : UpperChars[k] = c
  THEN LowerChars[CHOOSE k \in 1..Len(UpperChars) : UpperChars[k] = c]
  ELSE c

Upper(c) ==
  IF \E k \in 1..Len(LowerChars) : LowerChars[k] = c
  THEN UpperChars[CHOOSE k \in 1..Len(LowerChars) : LowerChars[k] = c]
  ELSE c

Digit == {"0","1","2","3","4","5","6","7","8","9"}

Roman == {"I","V","X","L","C","D","M"}

AsciiLower == {LowerChars[k] : k \in 1..26}

AsciiUpper == {UpperChars[k] : k \in 1..26}

AsciiLetter == AsciiLower \cup AsciiUpper

\* \s of a str pattern
Space == {"SP","NL","TAB","CR","FF","NBSP"}

\* \w of a str pattern: alphanumerics (U+00BA is a letter, U+00B0 is not) and "_"
WordCh == {UpperChars[k] : k \in 1..Len(UpperChars)}
          \cup {LowerChars[k] : k \in 1..Len(LowerChars)}
          \cup Digit \cup {"_", "ordm", "igr"}

\* the characters str.splitlines() breaks a line at
LineBreaks == {"NL","CR","FF"}

\* [°oº]
Ordinal == {"deg","o","ordm"}

(***************************************************************************)
(* Regular expressions: syntax trees                                        *)
(***************************************************************************)
Ch(S) == <<"chr", S>>

NotCh(S) == <<"nch", S>>

Cat(rs) == <<"cat", rs>>

Alt(rs) == <<"alt", rs>>

\* hi = -1: no upper limit
Rep(r, lo, hi) == <<"rep", r, lo, hi>>

Opt(r) == Rep(r, 0, 1)

Star(r) == Rep(r, 0, -1)

Plus(r) == Rep(r, 1, -1)

Grp(k, r) == <<"grp", k, r>>

Look(r) == <<"la", r>>

\* ^ and $ without re.MULTILINE, and with it
Bos == <<"bos">>

Eos == <<"eos">>

Bol == <<"bol">>

Eol == <<"eol">>

\* a literal string
Lit(cs) == <<"lit", cs>>

\* \s* \s+ [ \t]* [ \t]+ \d+
Ws0 == Star(Ch(Space))

Ws1 == Plus(Ch(Space))

Bl0 == Star(Ch({"SP","TAB"}))

Bl1 == Plus(Ch({"SP","TAB"}))

Digits1 == Plus(Ch(Digit))

(***************************************************************************)
(* The matcher                                                              *)
(***************************************************************************)
NGroups == 5

NoGroups == [k \in 1..NGroups |-> <<0, 0>>]

Fail == [ok |-> FALSE, b |-> 0, e |-> 0, g |-> NoGroups]

InClass(c, S, ic) == c \in S \/ (ic /\ (Lower(c) \in S \/ Upper(c) \in S))

MinOf(S) == CHOOSE a \in S : \A b \in S : a <= b

MaxOf(S) == CHOOSE a \in S : \A b \in S : a >= b

\* how many characters from position i on are in (chr) or out of (nch) the
\* class of node x, at most hi of them (hi = -1: no limit)
RunLen(x, s, i, hi, ic) ==
  LET stops == {k \in i..Len(s) : InClass(s[k], x[2], ic) = (x[1] = "nch")}
      n == IF stops = {} THEN Len(s) + 1 - i ELSE MinOf(stops) - i
  IN IF hi /= -1 /\ n > hi THEN hi ELSE n

RECURSIVE M(_, _, _, _, _)
RECURSIVE TryRun(_, _, _, _, _, _, _)
\* a greedy repetition of one character class took c characters from i: the
\* first of c, c-1, ..., lo after which the rest matches
TryRun(rest, s, i, g, ic, c, lo) ==
  LET a == M(rest, s, i + c, g, ic)
  IN IF a.ok \/ c <= lo THEN a ELSE TryRun(rest, s, i, g, ic, c - 1, lo)

\* st: the nodes still to match, in order; s: the text; i: the position
\* (1..Len(s)+1); g: the groups matched so far; ic: re.IGNORECASE
M(st, s, i, g, ic) ==
  IF Len(st) = 0 THEN [ok |-> TRUE, b |-> 0, e |-> i, g |-> g]
  ELSE
    LET r == Head(st)
        rest == Tail(st)
        t == r[1]
    IN
      CASE t = "chr" ->
             IF i <= Len(s) /\ InClass(s[i], r[2], ic)
             THEN M(rest, s, i + 1, g, ic) ELSE Fail
        [] t = "nch" ->
             IF i <= Len(s) /\ ~InClass(s[i], r[2], ic)
             THEN M(rest, s, i + 1, g, ic) ELSE Fail
        [] t = "lit" ->
             IF /\ i + Len(r[2]) - 1 <= Len(s)
                /\ \A k \in 1..Len(r[2]) : InClass(s[i + k - 1], {r[2][k]}, ic)
             THEN M(rest, s, i + Len(r[2]), g, ic) ELSE Fail
        [] t = "cat" -> M(r[2] \o rest, s, i, g, ic)
        [] t = "alt" ->
             LET a == M(<<r[2][1]>> \o rest, s, i, g, ic)
             IN IF a.ok \/ Len(r[2]) = 1 THEN a
                ELSE M(<<Alt(Tail(r[2]))>> \o rest, s, i, g, ic)
        [] t = "rep" ->
             LET x == r[2]
                 lo == r[3]
                 hi == r[4]
                 less == IF hi = -1 THEN -1 ELSE hi - 1
             IN IF x[1] \in {"chr", "nch"}
                THEN LET n == RunLen(x, s, i, hi, ic)
                     IN IF n < lo THEN Fail
                        ELSE TryRun(rest, s, i, g, ic, n, lo)
                ELSE IF lo > 0
                THEN M(<<x, Rep(x, lo - 1, less)>> \o rest, s, i, g, ic)
                ELSE IF hi = 0 THEN M(rest, s, i, g, ic)
                ELSE LET a == M(<<x, <<"adv", i>>, Rep(x, 0, less)>> \o rest,
                                s, i, g, ic)
                     IN IF a.ok THEN a ELSE M(rest, s, i, g, ic)
        [] t = "adv" -> IF i > r[2] THEN M(rest, s, i, g, ic) ELSE Fail
        [] t = "grp" -> M(<<r[3], <<"end", r[2], i>>>> \o rest, s, i, g, ic)
        [] t = "end" -> M(rest, s, i, [g EXCEPT ![r[2]] = <<r[3], i>>], ic)
        [] t = "la"  ->
             IF M(<<r[2]>>, s, i, g, ic).ok THEN M(rest, s, i, g, ic) ELSE Fail
        [] t = "bos" -> IF i = 1 THEN M(rest, s, i, g, ic) ELSE Fail
        [] t = "eos" ->
             IF i = Len(s) + 1 \/ (i = Len(s) /\ s[i] = "NL")
             THEN M(rest, s, i, g, ic) ELSE Fail
        [] t = "bol" ->
             IF i = 1 \/ s[i - 1] = "NL" THEN M(rest, s, i, g, ic) ELSE Fail
        [] t = "eol" ->
             IF i = Len(s) + 1 \/ s[i] = "NL"
             THEN M(rest, s, i, g, ic) ELSE Fail

\* v, once the text s has a value: an argument is evaluated where it is first
\* used, and s is first used deep inside the matcher
Strict(s, v) == IF Len(s) >= 0 THEN v ELSE s

\* pattern.match(s)
MatchAt(r, s, ic) ==
  LET m == M(<<r>>, s, 1, NoGroups, ic) IN [m EXCEPT !.b = 1]

\* pattern.search(s, from): the leftmost match starting at from or later
SearchAt(r, s, from, ic) ==
  LET hits == {i \in from..(Len(s) + 1) : M(<<r>>, s, i, NoGroups, ic).ok}
  IN IF hits = {} THEN Fail
     ELSE [M(<<r>>, s, MinOf(hits), NoGroups, ic) EXCEPT !.b = MinOf(hits)]

\* the following position to search from, after match m
AfterMatch(m) == IF m.e > m.b THEN m.e ELSE m.e + 1

RECURSIVE FindFrom(_, _, _, _)
\* pattern.finditer(s): the non-overlapping matches, left to right
FindFrom(r, s, from, ic) ==
  LET m == SearchAt(r, s, from, ic)
  IN IF ~m.ok THEN <<>>
     ELSE <<m>> \o FindFrom(r, s, AfterMatch(m), ic)

\* Call(f, a) evaluates the routine named f on the arguments a; the routines
\* of the program and of the re module are all entered through it
RECURSIVE Call(_, _)
Match(r, s, ic) == Call("Match", <<r, s, ic>>)

SearchFrom(r, s, from, ic) == Call("SearchFrom", <<r, s, from, ic>>)

Search(r, s, ic) == SearchFrom(r, s, 1, ic)

FindAll(r, s, ic) == Call("FindAll", <<r, s, ic>>)

\* m.group(k) of a group that took part in the match
Group(s, m, k) == SubSeq(s, m.g[k][1], m.g[k][2] - 1)

HasGroup(m, k) == m.g[k][1] > 0

\* m.group(0)
Whole(s, m) == SubSeq(s, m.b, m.e - 1)

\* pattern.sub(Repl, s): Repl(s, m) is the replacement of match m
Sub(r, s, ic, Repl(_, _)) ==
  LET ms == FindAll(r, s, ic)
      out[k \in 0..Len(ms)] ==
        IF k = 0 THEN <<>>
        ELSE out[k - 1]
             \o SubSeq(s, IF k = 1 THEN 1 ELSE ms[k - 1].e, ms[k].b - 1)
             \o Repl(s, ms[k])
  IN Strict(s, out[Len(ms)]
               \o SubSeq(s, IF Len(ms) = 0 THEN 1 ELSE ms[Len(ms)].e, Len(s)))

\* pattern.split(s) of a pattern with no group: the pieces between matches
Split0(r, s, ic) ==
  LET ms == FindAll(r, s, ic)
  IN [k \in 1..(Len(ms) + 1) |->
        SubSeq(s, IF k = 1 THEN 1 ELSE ms[k - 1].e,
                  IF k > Len(ms) THEN Len(s) ELSE ms[k].b - 1)]

\* pattern.split(s) of a pattern with one group: piece, group, piece, ...
Split1(r, s, ic) ==
  LET ms == FindAll(r, s, ic)
  IN [k \in 1..(2 * Len(ms) + 1) |->
        IF k % 2 = 0 THEN Group(s, ms[k \div 2], 1)
        ELSE LET j == (k + 1) \div 2
             IN SubSeq(s, IF j = 1 THEN 1 ELSE ms[j - 1].e,
                          IF j > Len(ms) THEN Len(s) ELSE ms[j].b - 1)]

(***************************************************************************)
(* str methods                                                              *)
(***************************************************************************)
RECURSIVE Flatten(_)
Flatten(ss) == IF Len(ss) = 0 THEN <<>> ELSE Head(ss) \o Flatten(Tail(ss))

RECURSIVE Join(_, _)
\* sep.join(ss)
Join(sep, ss) ==
  IF Len(ss) = 0 THEN <<>>
  ELSE IF Len(ss) = 1 THEN ss[1]
  ELSE ss[1] \o sep \o Join(sep, Tail(ss))

\* s.replace(c, "") and s.replace(c, d) for single characters c, d
Remove(s, c) == SelectSeq(s, LAMBDA x : x /= c)

Replace(s, c, d) == [k \in 1..Len(s) |-> IF s[k] = c THEN d ELSE s[k]]

\* s.strip()
Strip(s) ==
  LET keep == {k \in 1..Len(s) : s[k] \notin Space}
  IN IF keep = {} THEN <<>>
     ELSE SubSeq(s, CHOOSE a \in keep : \A k \in keep : a <= k,
                    CHOOSE z \in keep : \A k \in keep : z >= k)

\* s.startswith(p)
StartsWith(s, p) == Len(s) >= Len(p) /\ SubSeq(s, 1, Len(p)) = p

\* s.endswith(p)
EndsWith(s, p) ==
  Len(s) >= Len(p) /\ SubSeq(s, Len(s) - Len(p) + 1, Len(s)) = p

\* p in s
Contains(s, p) ==
  \E k \in 1..(Len(s) - Len(p) + 1) : SubSeq(s, k, k + Len(p) - 1) = p

\* s.lower()
LowerStr(s) == [k \in 1..Len(s) |-> Lower(s[k])]

RECURSIVE SplitLinesFrom(_, _)
\* s.splitlines(): no empty last line after a final line break
SplitLinesFrom(s, from) ==
  IF from > Len(s) THEN <<>>
  ELSE LET brk == {k \in from..Len(s) : s[k] \in LineBreaks}
       IN IF brk = {} THEN <<SubSeq(s, from, Len(s))>>
          ELSE LET k == CHOOSE a \in brk : \A b \in brk : a <= b
               IN <<SubSeq(s, from, k - 1)>> \o SplitLinesFrom(s, k + 1)

SplitLines(s) == Strict(s, SplitLinesFrom(s, 1))

(***************************************************************************)
(* FASE 1 - normalizar_texto                                                *)
(***************************************************************************)
NL == <<"NL">>

SP == <<"SP">>

\* linhas = [re.sub(r"  +", " ", l) for l in texto.splitlines()]
ColapsaEspacos(t) ==
  LET ls == SplitLines(t)
  IN Join(NL, [k \in 1..Len(ls) |->
                 Sub(Cat(<<Ch({"SP"}), Plus(Ch({"SP"}))>>), ls[k], FALSE,
                     LAMBDA s, m : SP)])

\* Metadados partidos: re.sub(r"\(([^\n)]{1,40})\n([^\n)]{1,80}\))", r"(\1 \2)")
MetadadosPartidos(t) ==
  Sub(Cat(<<Ch({"("}),
            Grp(1, Rep(NotCh({"NL", ")"}), 1, 40)),
            Ch({"NL"}),
            Grp(2, Cat(<<Rep(NotCh({"NL", ")"}), 1, 80), Ch({")"})>>))>>),
      t, FALSE,
      LAMBDA s, m : <<"(">> \o Group(s, m, 1) \o SP \o Group(s, m, 2) \o <<")">>)

\* re.sub(r"\nParagrafo\n\s*(unico)", r"\nParagrafo unico", flags=re.IGNORECASE)
ParagrafoUnicoPartido(t) ==
  Sub(Cat(<<Ch({"NL"}), Lit(<<"P","a","r","aac","g","r","a","f","o">>),
            Ch({"NL"}), Ws0, Grp(1, Lit(<<"uac","n","i","c","o">>))>>),
      t, TRUE,
      LAMBDA s, m : <<"NL","P","a","r","aac","g","r","a","f","o","SP",
                      "uac","n","i","c","o">>)

\* the three rewrites of a paragraph sign split over 3 or 2 lines
ParagrafoPartido(t) ==
  LET a == Sub(Cat(<<Ch({"NL"}), Ch({"sect"}), Ch({"NL"}), Grp(1, Digits1),
                     Ch({"NL"}), Grp(2, Ch(Ordinal)), Ch({"NL"})>>),
               t, FALSE,
               LAMBDA s, m : <<"NL","sect","SP">> \o Group(s, m, 1)
                             \o <<"ordm","NL">>)
      b == Sub(Cat(<<Ch({"NL"}), Ch({"sect"}), Ch({"NL"}),
                     Grp(1, Cat(<<Digits1, Ch(Ordinal)>>))>>),
               a, FALSE,
               LAMBDA s, m : <<"NL","sect","SP">> \o Group(s, m, 1))
  IN Sub(Cat(<<Ch({"NL"}), Ch({"sect"}), Ch({"NL"}),
               Grp(1, Cat(<<Digits1, Ch(Ordinal),
                            Opt(Cat(<<Ch({"-"}), Ch(AsciiLetter)>>)),
                            Ch(Space)>>))>>),
         b, FALSE,
         LAMBDA s, m : <<"NL","sect","SP">> \o Group(s, m, 1))

\* the four rewrites of an ordinal glyph split from its digit, then the one
\* after "Art. N"
OrdinalPartido(t) ==
  LET a == Sub(Cat(<<Grp(1, Ch(Digit)), Ch({"NL"}), Grp(2, Ch({"o"})),
                     Ch({"NL"})>>),
               t, FALSE, LAMBDA s, m : Group(s, m, 1) \o <<"ordm","NL">>)
      b == Sub(Cat(<<Grp(1, Ch(Digit)), Ch({"NL"}),
                     Grp(2, Ch({"deg","ordm"})), Ch({"NL"})>>),
               a, FALSE, LAMBDA s, m : Group(s, m, 1) \o <<"ordm","NL">>)
      c == Sub(Cat(<<Grp(1, Ch(Digit)), Ch({"NL"}), Grp(2, Ch({"o"})), Eol>>),
               b, FALSE, LAMBDA s, m : Group(s, m, 1) \o <<"ordm">>)
      d == Sub(Cat(<<Grp(1, Ch(Digit)), Ch({"NL"}),
                     Grp(2, Ch({"deg","ordm"})), Eol>>),
               c, FALSE, LAMBDA s, m : Group(s, m, 1) \o <<"ordm">>)
  IN Sub(Cat(<<Grp(1, Cat(<<Lit(<<"A","r","t",".">>), Ws0, Digits1>>)),
               Ch({"NL"}), Grp(2, Ch(Ordinal)), Ch({"NL"})>>),
         d, FALSE,
         LAMBDA s, m : Group(s, m, 1) \o Group(s, m, 2) \o NL)

\* r'^(Art\.?\s*\d+[°oº]?(?:-[A-Za-z])?)\s*$'
RE_ART_SO == Cat(<<Bos,
                   Grp(1, Cat(<<Lit(<<"A","r","t">>), Opt(Ch({"."})), Ws0,
                                Digits1, Opt(Ch(Ordinal)),
                                Opt(Cat(<<Ch({"-"}), Ch(AsciiLetter)>>))>>)),
                   Ws0, Eos>>)

REF_INTERNA == <<"r","e","f","e","r","eci","n","c","i","a","_",
                 "i","n","t","e","r","n","a",":">>

\* the first index k >= from of a line that is not blank, or Len + 1
RECURSIVE ProximaNaoVazia(_, _)
ProximaNaoVazia(linhas, k) ==
  IF k <= Len(linhas) /\ Len(Strip(linhas[k])) = 0
  THEN ProximaNaoVazia(linhas, k + 1) ELSE k

RECURSIVE FixArtLinhas(_, _)
\* the while loop of _fix_art_partido from index i (1-based): the lines appended
FixArtLinhas(linhas, i) ==
  IF i > Len(linhas) THEN <<>>
  ELSE
    LET l == linhas[i]
        s == Strip(l)
        m == Match(RE_ART_SO, s, FALSE)
        prox == Strip(linhas[i + 1])
        k == ProximaNaoVazia(linhas, i + 2)
        terceira == IF k <= Len(linhas) THEN Strip(linhas[k]) ELSE <<>>
    IN IF m.ok /\ i + 1 <= Len(linhas) /\ prox = <<".">>
       THEN IF StartsWith(terceira, <<"A","r","t">>)
            THEN <<REF_INTERNA \o SP \o s \o <<".">>>>
                 \o FixArtLinhas(linhas, i + 2)
            ELSE <<Group(s, m, 1) \o <<".">>>> \o FixArtLinhas(linhas, i + 2)
       ELSE IF m.ok /\ i + 1 <= Len(linhas) /\ prox = <<";">>
       THEN <<REF_INTERNA \o SP \o s \o <<";">>>> \o FixArtLinhas(linhas, i + 2)
       ELSE IF m.ok /\ i + 1 <= Len(linhas) /\ StartsWith(prox, <<",">>)
       THEN <<s \o prox>> \o FixArtLinhas(linhas, i + 2)
       ELSE <<l>> \o FixArtLinhas(linhas, i + 1)

_fix_art_partido(t) == Join(NL, FixArtLinhas(SplitLines(t), 1))

\* (T[II]TULO|CAP[II]TULO|SE[CC][AA]O|SUBSE[CC][AA]O|LIVRO|PARTE)
PALAVRA_HIER ==
  Alt(<<Cat(<<Ch({"T"}), Ch({"I","Iac"}), Lit(<<"T","U","L","O">>)>>),
        Cat(<<Lit(<<"C","A","P">>), Ch({"I","Iac"}), Lit(<<"T","U","L","O">>)>>),
        Cat(<<Lit(<<"S","E">>), Ch({"Cced","C"}), Ch({"Atil","A"}), Ch({"O"})>>),
        Cat(<<Lit(<<"S","U","B","S","E">>), Ch({"Cced","C"}), Ch({"Atil","A"}),
              Ch({"O"})>>),
        Lit(<<"L","I","V","R","O">>),
        Lit(<<"P","A","R","T","E">>)>>)

\* Marcadores hierarquicos partidos: keyword \s*\n\s* ([IVXLCDM][\w-]*) -> "\1 \2"
MarcadoresPartidos(t) ==
  Sub(Cat(<<Grp(1, PALAVRA_HIER), Ws0, Ch({"NL"}), Ws0,
            Grp(2, Cat(<<Ch(Roman), Star(Ch(WordCh \cup {"-"}))>>))>>),
      t, TRUE,
      LAMBDA s, m : Group(s, m, 1) \o SP \o Group(s, m, 2))

\* [BUG3 FIX] r"\n([Ll]ivro|[Tt]itulo|[Cc]apitulo)\s+[IVXLCDM]+[^\n]*\n\.\n" -> "\n"
RemoveRefCruzada(t) ==
  Sub(Cat(<<Ch({"NL"}),
            Grp(1, Alt(<<Cat(<<Ch({"L","l"}), Lit(<<"i","v","r","o">>)>>),
                         Cat(<<Ch({"T","t"}), Lit(<<"iac","t","u","l","o">>)>>),
                         Cat(<<Ch({"C","c"}),
                               Lit(<<"a","p","iac","t","u","l","o">>)>>)>>)),
            Ws1, Plus(Ch(Roman)), Star(NotCh({"NL"})), Ch({"NL"}), Ch({"."}),
            Ch({"NL"})>>),
      t, FALSE, LAMBDA s, m : NL)

\* Colapsa 3+ linhas vazias: re.sub(r"\n{3,}", "\n\n")
ColapsaVazias(t) ==
  Sub(Rep(Ch({"NL"}), 3, -1), t, FALSE, LAMBDA s, m : <<"NL","NL">>)

\* if not texto.startswith("\n"): texto = "\n" + texto
GaranteInicio(t) == IF StartsWith(t, NL) THEN t ELSE NL \o t

normalizar_texto(t) ==
  LET t1 == Replace(Replace(Remove(t, "CR"), "NBSP", "SP"), "BOX", "ordm")
      t2 == ColapsaEspacos(t1)
      t3 == MetadadosPartidos(t2)
      t4 == ParagrafoUnicoPartido(t3)
      t5 == ParagrafoPartido(t4)
      t6 == OrdinalPartido(t5)
      t7 == _fix_art_partido(t6)
      t8 == MarcadoresPartidos(t7)
      t9 == RemoveRefCruzada(t8)
  IN GaranteInicio(ColapsaVazias(t9))

(***************************************************************************)
(* FASE 2 - limpeza de texto final                                          *)
(***************************************************************************)
\* Python's None where a text is expected
None == <<"NONE">>

Empty(s, m) == <<>>

\* limpar_texto_final once the line breaks are spaces
LimparLinha(t1) ==
    LET t2 == Sub(Rep(Ch({"SP"}), 2, -1), t1, FALSE, LAMBDA s, m : SP)
        t3 == Sub(Cat(<<Bos, Ch(Ordinal), Ws0, Ch({"-","ndash"}), Ws1>>),
                  t2, FALSE, LAMBDA s, m : <<>>)
        t4 == Sub(Cat(<<Bos, Ch(Ordinal), Ws1>>), t3, FALSE, LAMBDA s, m : <<>>)
        t5 == Sub(Cat(<<Bos, Ws0, Ch({"-","ndash"}), Ws1>>), t4, FALSE,
                  LAMBDA s, m : <<>>)
        t6 == Sub(Cat(<<Bos, Ch({"."}), Ws1>>), t5, FALSE, LAMBDA s, m : <<>>)
        t7 == Replace(Replace(Replace(t6, "x96", "-"), "ndash", "-"),
                      "mdash", "-")
        t8 == Sub(Cat(<<Ws1, Grp(1, Ch({".", ",", ";"})), Ws0, Eos>>), t7, FALSE,
                  LAMBDA s, m : Group(s, m, 1))
    IN Strip(t8)

\* limpar_texto_final without its first step, texto.replace("\n", " ")
limpar_texto_final_sem_quebra(t) == IF Len(t) = 0 THEN t ELSE LimparLinha(t)

limpar_texto_final(t) ==
  IF Len(t) = 0 THEN t ELSE LimparLinha(Replace(t, "NL", "SP"))

limpar_norma(t) ==
  IF Len(t) = 0 THEN t ELSE Strip(Sub(Ws1, t, FALSE, LAMBDA s, m : SP))

\* re.sub(r"([0-9])[°oº]$", r"\1", numero)
_id_num(numero) ==
  IF Len(numero) = 0 THEN numero
  ELSE Sub(Cat(<<Grp(1, Ch(Digit)), Ch(Ordinal), Eos>>), numero, FALSE,
           LAMBDA s, m : Group(s, m, 1))

(***************************************************************************)
(* FASE 3 - metadados legislativos                                          *)
(***************************************************************************)
_PAT_META ==
  Cat(<<Ch({"("}),
        Grp(1, Alt(<<
          Lit(<<"R","e","d","a","cced","atil","o","SP","d","a","d","a">>),
          Lit(<<"I","n","c","l","u","iac","d","o">>),
          Lit(<<"I","n","c","l","u","iac","d","a">>),
          Lit(<<"I","n","c","l","u","iac","d","o","s">>),
          Lit(<<"I","n","c","l","u","iac","d","a","s">>),
          Lit(<<"R","e","v","o","g","a","d","o">>),
          Lit(<<"R","e","v","o","g","a","d","a">>),
          Lit(<<"R","e","v","o","g","a","d","o","s">>),
          Lit(<<"R","e","v","o","g","a","d","a","s">>),
          Lit(<<"V","i","d","e">>),
          Lit(<<"R","e","n","u","m","e","r","a","d","o">>),
          Lit(<<"V","i","g","eci","n","c","i","a">>),
          Lit(<<"A","c","r","e","s","c","i","d","o">>),
          Lit(<<"A","c","r","e","s","c","i","d","a">>),
          Lit(<<"S","u","p","r","i","m","i","d","o">>),
          Lit(<<"S","u","p","r","i","m","i","d","a">>),
          Lit(<<"A","l","t","e","r","a","d","o">>),
          Lit(<<"A","l","t","e","r","a","d","a">>),
          Lit(<<"V","E","T","A","D","O">>)>>)),
        Star(NotCh({")"})), Ch({")"})>>)

_PAT_NORMA ==
  Cat(<<Grp(1, Alt(<<
          Cat(<<Lit(<<"L","e","i">>),
                Opt(Cat(<<Ws1, Lit(<<"C","o","m","p","l","e","m","e","n","t",
                                     "a","r">>)>>))>>),
          Cat(<<Lit(<<"D","e","c","r","e","t","o">>),
                Opt(Lit(<<"-","L","e","i">>))>>),
          Cat(<<Lit(<<"E","m","e","n","d","a">>), Ws1,
                Lit(<<"C","o","n","s","t","i","t","u","c","i","o","n","a","l">>)>>),
          Cat(<<Lit(<<"M","e","d","i","d","a">>), Ws1,
                Lit(<<"P","r","o","v","i","s","oac","r","i","a">>)>>),
          Lit(<<"R","e","s","o","l","u","cced","atil","o">>),
          Lit(<<"P","o","r","t","a","r","i","a">>),
          Cat(<<Lit(<<"I","n","s","t","r","u","cced","atil","o">>), Ws1,
                Lit(<<"N","o","r","m","a","t","i","v","a">>)>>),
          Cat(<<Lit(<<"A","t","o">>), Ws1,
                Alt(<<Lit(<<"I","n","s","t","i","t","u","c","i","o","n","a","l">>),
                      Lit(<<"N","o","r","m","a","t","i","v","o">>)>>)>>),
          Lit(<<"C","o","n","v","eci","n","i","o">>),
          Lit(<<"A","d","i","n">>),
          Lit(<<"A","D","P","F">>)>>)),
        Star(Ch(Space \cup WordCh \cup {".", "/", "ordm", "-", "n"}))>>)

\* de\s+(\d{4})|de\s+\d+[º°]?\.\d+\.(\d{4})
_PAT_ANO ==
  Alt(<<Cat(<<Lit(<<"d","e">>), Ws1, Grp(1, Rep(Ch(Digit), 4, 4))>>),
        Cat(<<Lit(<<"d","e">>), Ws1, Digits1, Opt(Ch({"ordm","deg"})),
              Ch({"."}), Digits1, Ch({"."}), Grp(2, Rep(Ch(Digit), 4, 4))>>)>>)

\* the kind of one annotation with acrescido tried before vetado
TipoMeta_acrescido_antes(t) ==
  LET tl == LowerStr(t)
  IN IF Contains(tl, <<"r","e","d","a","cced","atil","o","SP","d","a","d","a">>)
       THEN "redacao"
     ELSE IF Contains(tl, <<"i","n","c","l","u","iac","d">>) THEN "incluido"
     ELSE IF Contains(tl, <<"r","e","v","o","g","a","d">>) THEN "revogado"
     ELSE IF Contains(tl, <<"r","e","n","u","m","e","r","a","d","o">>)
       THEN "renumerado"
     ELSE IF Contains(tl, <<"v","i","d","e">>) THEN "vide"
     ELSE IF Contains(tl, <<"v","i","g","eci","n","c","i","a">>) THEN "vigencia"
     ELSE IF Contains(tl, <<"a","c","r","e","s","c","i","d">>) THEN "acrescido"
     ELSE IF Contains(tl, <<"v","e","t","a","d","o">>) THEN "vetado"
     ELSE "None"

\* the kind of one annotation t = m.group(0)
TipoMeta(t) ==
  LET tl == LowerStr(t)
  IN IF Contains(tl, <<"r","e","d","a","cced","atil","o","SP","d","a","d","a">>)
       THEN "redacao"
     ELSE IF Contains(tl, <<"i","n","c","l","u","iac","d">>) THEN "incluido"
     ELSE IF Contains(tl, <<"r","e","v","o","g","a","d">>) THEN "revogado"
     ELSE IF Contains(tl, <<"r","e","n","u","m","e","r","a","d","o">>)
       THEN "renumerado"
     ELSE IF Contains(tl, <<"v","i","d","e">>) THEN "vide"
     ELSE IF Contains(tl, <<"v","i","g","eci","n","c","i","a">>) THEN "vigencia"
     ELSE IF Contains(tl, <<"v","e","t","a","d","o">>) THEN "vetado"
     ELSE IF Contains(tl, <<"a","c","r","e","s","c","i","d">>) THEN "acrescido"
     ELSE "None"

\* the dict appended to metas for one match
UmMeta(t) ==
  LET norma_m == Search(_PAT_NORMA, t, TRUE)
      ano_m == Search(_PAT_ANO, t, FALSE)
  IN [tipo  |-> TipoMeta(t),
      norma |-> IF norma_m.ok THEN limpar_norma(Whole(t, norma_m)) ELSE None,
      ano   |-> IF ~ano_m.ok THEN None
                ELSE IF HasGroup(ano_m, 1) THEN Group(t, ano_m, 1)
                ELSE Group(t, ano_m, 2)]

\* returns the pair (texto_limpo, metas) as a record
extrair_metadados(t) ==
  LET ms == FindAll(_PAT_META, t, TRUE)
      metas == [k \in 1..Len(ms) |-> UmMeta(Whole(t, ms[k]))]
      limpo == Strip(Sub(_PAT_META, t, TRUE, Empty))
      unico == metas[1]
  IN [texto |->
        IF Len(limpo) = 0 /\ Len(metas) > 0
        THEN IF unico.tipo = "vetado" THEN <<"(","V","E","T","A","D","O",")">>
             ELSE IF unico.tipo = "revogado"
                     /\ (unico.norma = None \/ unico.norma = <<>>)
             THEN <<"(","R","e","v","o","g","a","d","o",")">>
             ELSE limpo
        ELSE limpo,
      metas |-> metas]

(***************************************************************************)
(* FASE 4 - alineas, incisos, paragrafos                                    *)
(***************************************************************************)
\* a dict with one more key when the list is not empty: if m0: r[key] = m0
ComLista(r, key, lista) == IF Len(lista) = 0 THEN r ELSE r @@ (key :> lista)

\* \n[ \t]*([a-z])\)[ \t]+
_SPLIT_ALINEA ==
  Cat(<<Ch({"NL"}), Bl0, Grp(1, Ch(AsciiLower)), Ch({")"}), Bl1>>)

\* the dict of one alinea: partes[i] is the letter, partes[i + 1] the body
UmaAlinea(letra, corp) ==
  LET e == extrair_metadados(Strip(corp))
  IN ComLista([tipo |-> "alinea", letra |-> letra,
               texto |-> limpar_texto_final(e.texto)], "metadados", e.metas)

extrair_alineas(t) ==
  LET partes == Split1(_SPLIT_ALINEA, t, FALSE)
      e0 == extrair_metadados(Strip(partes[1]))
      r == ComLista([texto |-> limpar_texto_final(e0.texto)], "metadados",
                    e0.metas)
      n == (Len(partes) - 1) \div 2
  IN IF Len(partes) <= 1 THEN r
     ELSE r @@ ("alineas" :>
                  [k \in 1..n |-> UmaAlinea(partes[2 * k], partes[2 * k + 1])])

\* \n[ \t]*([IVXLCDM]{1,7}(?:-[A-Z])?)[ \t]*\n?[ \t]*[-\x96\u2013\u2014][ \t]*
_SPLIT_INCISO ==
  Cat(<<Ch({"NL"}), Bl0,
        Grp(1, Cat(<<Rep(Ch(Roman), 1, 7),
                     Opt(Cat(<<Ch({"-"}), Ch(AsciiUpper)>>))>>)),
        Bl0, Opt(Ch({"NL"})), Bl0, Ch({"-", "x96", "ndash", "mdash"}), Bl0>>)

\* resultado["incisos"] = incisos, one for each numeral of the split
ComIncisos(r, partes) ==
  r @@ ("incisos" :>
          [k \in 1..((Len(partes) - 1) \div 2) |->
             [tipo |-> "inciso", numero |-> partes[2 * k],
              conteudo |->
                Call("extrair_alineas", <<Strip(partes[2 * k + 1])>>)]])

\* extrair_incisos that also looks for alineas in the text before the first
\* inciso
extrair_incisos_com_alineas(t) ==
  LET partes == Split1(_SPLIT_INCISO, t, FALSE)
  IN IF Len(partes) <= 1 THEN Call("extrair_alineas", <<t>>)
     ELSE ComIncisos(Call("extrair_alineas", <<Strip(partes[1])>>), partes)

extrair_incisos(t) ==
  LET partes == Split1(_SPLIT_INCISO, t, FALSE)
      e0 == extrair_metadados(Strip(partes[1]))
      r == ComLista([texto |-> limpar_texto_final(e0.texto)], "metadados",
                    e0.metas)
  IN IF Len(partes) <= 1 THEN Call("extrair_alineas", <<t>>)
     ELSE ComIncisos(r, partes)

\* [-\u2013.] between optional white space, all of it optional
SepOpcional == Opt(Cat(<<Ws0, Ch({"-", "ndash", "."}), Ws0>>))

SufixoLetra == Opt(Cat(<<Ch({"-"}), Ch(AsciiLetter)>>))

\* IGNORECASE
_SPLIT_PARAGRAFO ==
  Cat(<<Ch({"NL"}),
        Grp(1, Alt(<<
          Cat(<<Ch({"sect"}), Ws0, Digits1, Opt(Ch(Ordinal)), SufixoLetra,
                SepOpcional>>),
          Cat(<<Lit(<<"P","a","r","aac","g","r","a","f","o">>), Ws1,
                Lit(<<"uac","n","i","c","o">>), Ws0,
                Opt(Cat(<<Ch({"-", "ndash", "."}), Ws0>>))>>)>>))>>)

\* ^Art\.?\s*\d+[°oº]?(?:-[A-Za-z])?(?:\s*[-–.]\s*|\s+)
_RE_STRIP_ART ==
  Cat(<<Bos, Lit(<<"A","r","t">>), Opt(Ch({"."})), Ws0, Digits1,
        Opt(Ch(Ordinal)), SufixoLetra,
        Alt(<<Cat(<<Ws0, Ch({"-", "ndash", "."}), Ws0>>), Ws1>>)>>)

\* re.sub(r"^[-–]\s+", "", s)
SemTraco(t) ==
  Sub(Cat(<<Bos, Ch({"-", "ndash"}), Ws1>>), t, FALSE, Empty)

\* re.sub(r"^\.\s+", "", s)
SemPonto(t) == Sub(Cat(<<Bos, Ch({"."}), Ws1>>), t, FALSE, Empty)

\* the number of a paragraph taken as the first run of digits alone
NumeroParagrafo_so_digitos(marcador) ==
  LET m == Search(Grp(1, Digits1), marcador, FALSE)
  IN IF Search(Lit(<<"uac","n","i","c","o">>), marcador, TRUE).ok
       THEN <<"uac","n","i","c","o">>
     ELSE IF ~m.ok THEN None
     ELSE Group(marcador, m, 1)

\* the number of a paragraph from its marker
NumeroParagrafo(marcador) ==
  LET m == Search(Grp(1, Cat(<<Digits1, Opt(Ch(Ordinal \cup {"BOX"})),
                               SufixoLetra>>)), marcador, FALSE)
  IN IF Search(Lit(<<"uac","n","i","c","o">>), marcador, TRUE).ok
       THEN <<"uac","n","i","c","o">>
     ELSE IF ~m.ok THEN None
     ELSE Sub(Ch(Ordinal \cup {"BOX"}), Group(marcador, m, 1), FALSE, Empty)

\* extrair_paragrafos that leaves the caput out when nothing is left of it
\* after the head
extrair_paragrafos_sem_caput_vazio(txt_art) ==
  LET partes == Split1(_SPLIT_PARAGRAFO, txt_art, TRUE)
      raw0 == Strip(partes[1])
      raw1 == SemTraco(Strip(Sub(_RE_STRIP_ART, raw0, FALSE, Empty)))
      caput == IF Len(raw1) = 0 THEN <<>>
               ELSE <<[tipo |-> "caput",
                       conteudo |-> Call("extrair_incisos", <<raw1>>)]>>
      n == (Len(partes) - 1) \div 2
  IN caput \o
     [k \in 1..n |->
        [tipo |-> "paragrafo",
         numero |-> NumeroParagrafo(Strip(partes[2 * k])),
         conteudo |->
           Call("extrair_incisos",
                <<SemPonto(SemTraco(Strip(partes[2 * k + 1])))>>)]]

extrair_paragrafos(txt_art) ==
  LET partes == Split1(_SPLIT_PARAGRAFO, txt_art, TRUE)
      raw0 == Strip(partes[1])
      raw1 == SemTraco(Strip(Sub(_RE_STRIP_ART, raw0, FALSE, Empty)))
      caput == IF Len(raw0) = 0 THEN <<>>
               ELSE <<[tipo |-> "caput",
                       conteudo |-> Call("extrair_incisos", <<raw1>>)]>>
      n == (Len(partes) - 1) \div 2
  IN caput \o
     [k \in 1..n |->
        [tipo |-> "paragrafo",
         numero |-> NumeroParagrafo(Strip(partes[2 * k])),
         conteudo |->
           Call("extrair_incisos",
                <<SemPonto(SemTraco(Strip(partes[2 * k + 1])))>>)]]

(***************************************************************************)
(* FASE 5 - parse de artigos                                                *)
(***************************************************************************)
\* \n(?=Art\.?\s*\d), case sensitive
_SPLIT_ARTIGO ==
  Cat(<<Ch({"NL"}),
        Look(Cat(<<Lit(<<"A","r","t">>), Opt(Ch({"."})), Ws0, Ch(Digit)>>))>>)

\* Art\.?\s*(\d+[°oº]?(?:-[A-Za-z])?)
_RE_ART_NUM ==
  Cat(<<Lit(<<"A","r","t">>), Opt(Ch({"."})), Ws0,
        Grp(1, Cat(<<Digits1, Opt(Ch(Ordinal)), SufixoLetra>>))>>)

\* obj.get("metadados", [])
MetasDe(obj) == IF "metadados" \in DOMAIN obj THEN obj.metadados ELSE <<>>

RECURSIVE MetasConteudo(_)
\* _coletar_metas of a conteudo dict: its own annotations, then those of its
\* incisos or alineas in order
MetasConteudo(c) ==
  MetasDe(c)
  \o (IF "incisos" \in DOMAIN c
      THEN Flatten([k \in 1..Len(c.incisos) |->
                      MetasConteudo(c.incisos[k].conteudo)])
      ELSE <<>>)
  \o (IF "alineas" \in DOMAIN c
      THEN Flatten([k \in 1..Len(c.alineas) |-> MetasDe(c.alineas[k])])
      ELSE <<>>)

\* _coletar_metas of the list of blocks of one article
_coletar_metas(estrutura) ==
  Flatten([k \in 1..Len(estrutura) |-> MetasConteudo(estrutura[k].conteudo)])

RECURSIVE Dec(_)
\* str(n) of a natural number
Dec(n) ==
  LET d == <<"0","1","2","3","4","5","6","7","8","9">>
  IN IF n < 10 THEN <<d[n + 1]>> ELSE Dec(n \div 10) \o <<d[(n % 10) + 1]>>

LEI_ART == <<"l","e","i","-">>

\* the confidence without the penalty for a caput without text
Confianca_sem_caput(txt, estrutura) ==
  LET c0 == 100
      c1 == IF ~StartsWith(txt, <<"A","r","t">>) THEN c0 - 30 ELSE c0
      c2 == IF Len(txt) < 10 THEN c1 - 50 ELSE c1
      c3 == IF Contains(txt, <<"r","e","f","e","r","eci","n","c","i","a","_","i","n","t","e","r","n","a">>) THEN c2 - 20 ELSE c2
  IN IF c3 < 10 THEN 10 ELSE c3

\* the confidence without the floor of 0.1 and with a penalty of 0.5 for a
\* missing caput
Confianca_sem_piso(txt, estrutura) ==
  LET c0 == 100
      c1 == IF ~StartsWith(txt, <<"A","r","t">>) THEN c0 - 30 ELSE c0
      c2 == IF Len(txt) < 10 THEN c1 - 50 ELSE c1
      c3 == IF Contains(txt, <<"r","e","f","e","r","eci","n","c","i","a","_","i","n","t","e","r","n","a">>) THEN c2 - 20 ELSE c2
      tem_caput == \E k \in 1..Len(estrutura) : estrutura[k].tipo = "caput" /\ Len(estrutura[k].conteudo.texto) > 0
  IN IF ~tem_caput THEN c3 - 50 ELSE c3

\* confianca counts hundredths: 100 stands for 1.0, 10 for 0.1
Confianca(txt, estrutura) ==
  LET c0 == 100
      c1 == IF ~StartsWith(txt, <<"A","r","t">>) THEN c0 - 30 ELSE c0
      c2 == IF Len(txt) < 10 THEN c1 - 50 ELSE c1
      c3 == IF Contains(txt, <<"r","e","f","e","r","eci","n","c","i","a","_",
                               "i","n","t","e","r","n","a">>)
            THEN c2 - 20 ELSE c2
      tem_caput == \E k \in 1..Len(estrutura) :
                      /\ estrutura[k].tipo = "caput"
                      /\ Len(estrutura[k].conteudo.texto) > 0
      c4 == IF ~tem_caput THEN c3 - 40 ELSE c3
  IN IF c4 < 10 THEN 10 ELSE c4

\* one piece of the split: is it kept as an article?
ArtigoAceito(txt) ==
  LET m == Match(_RE_ART_NUM, txt, FALSE)
      resto == Strip(SubSeq(txt, m.e, MinOf({m.e + 2, Len(txt)})))
  IN /\ StartsWith(txt, <<"A","r","t">>)
     /\ ~StartsWith(txt, <<"r","e","f","e","r","eci","n","c","i","a","_",
                           "i","n","t","e","r","n","a",":">>)
     /\ m.ok
     /\ ~(Len(resto) > 0 /\ resto[1] \in {",", ";"})

\* the dict of one kept article, n its position in the law
UmArtigo(txt, lei, n) ==
  LET m == Match(_RE_ART_NUM, txt, FALSE)
      numero == Group(txt, m, 1)
      idn == _id_num(numero)
      estrutura == Call("extrair_paragrafos", <<txt>>)
  IN ComLista(
       [id |-> LEI_ART \o lei \o <<"-","a","r","t","-">>
                 \o (IF Len(idn) > 0 THEN idn ELSE Dec(n)),
        ordem |-> n,
        numero |-> numero,
        tipo |-> "artigo",
        confianca |-> Confianca(txt, estrutura),
        texto_bruto |-> txt,
        estrutura |-> estrutura],
       "alteracoes", _coletar_metas(estrutura))

\* _parse_artigos with ordem[0] += 1 moved above the filters: a skipped piece
\* takes a number too
_parse_artigos_conta_todos(bloco, lei, ordem) ==
  LET partes == Split0(_SPLIT_ARTIGO, bloco, FALSE)
      acc[k \in 0..Len(partes)] ==
        IF k = 0 THEN [resultado |-> <<>>, ordem |-> ordem]
        ELSE LET prev == acc[k - 1]
                 txt == Strip(partes[k])
             IN [resultado |->
                   IF ~ArtigoAceito(txt) THEN prev.resultado
                   ELSE Append(prev.resultado,
                               UmArtigo(txt, lei, prev.ordem + 1)),
                 ordem |-> prev.ordem + 1]
  IN acc[Len(partes)]

\* returns the list of articles and the advanced counter ordem[0]
_parse_artigos(bloco, lei, ordem) ==
  LET partes == Split0(_SPLIT_ARTIGO, bloco, FALSE)
      acc[k \in 0..Len(partes)] ==
        IF k = 0 THEN [resultado |-> <<>>, ordem |-> ordem]
        ELSE LET prev == acc[k - 1]
                 txt == Strip(partes[k])
             IN IF ~ArtigoAceito(txt) THEN prev
                ELSE [resultado |-> Append(prev.resultado,
                                           UmArtigo(txt, lei, prev.ordem + 1)),
                      ordem |-> prev.ordem + 1]
  IN acc[Len(partes)]

(***************************************************************************)
(* Art./paragraph heads embedded in names                                   *)
(***************************************************************************)
\* \s+(?:Art\.?\s*\d|§\s*\d)
_RE_ARTIGO_OU_PARA_EMBUTIDO ==
  Cat(<<Ws1, Alt(<<Cat(<<Lit(<<"A","r","t">>), Opt(Ch({"."})), Ws0, Ch(Digit)>>),
                   Cat(<<Ch({"sect"}), Ws0, Ch(Digit)>>)>>)>>)

_truncar_na_fronteira_artigo(t) ==
  LET m == Search(_RE_ARTIGO_OU_PARA_EMBUTIDO, t, FALSE)
  IN IF m.ok THEN Strip(SubSeq(t, 1, m.b - 1)) ELSE t

(***************************************************************************)
(* FASE 6 - hierarquia estrutural                                           *)
(***************************************************************************)
Romanos1 == Plus(Ch(Roman))

\* [IVXLCDM]+(?:-[A-Za-z])?
RomanosLetra == Cat(<<Romanos1, SufixoLetra>>)

\* \s*(?:\n|$)
FimDeLinha == Cat(<<Ws0, Alt(<<Ch({"NL"}), Eos>>)>>)

KW_PARTE == Lit(<<"P","A","R","T","E">>)

KW_LIVRO == Lit(<<"L","I","V","R","O">>)

KW_TITULO == Cat(<<Ch({"T"}), Ch({"I","Iac"}), Lit(<<"T","U","L","O">>)>>)

KW_CAPITULO ==
  Cat(<<Lit(<<"C","A","P">>), Ch({"I","Iac"}), Lit(<<"T","U","L","O">>)>>)

KW_SECAO ==
  Cat(<<Lit(<<"S","E">>), Ch({"Cced","C"}), Ch({"Atil","A"}), Ch({"O"})>>)

KW_SUBSECAO == Cat(<<Lit(<<"S","U","B">>), KW_SECAO>>)

NumParte ==
  Alt(<<Romanos1, Lit(<<"G","E","R","A","L">>),
        Lit(<<"E","S","P","E","C","I","A","L">>)>>)

\* the six split patterns, all IGNORECASE
_SPLIT_PARTE ==
  Cat(<<Ch({"NL"}), Look(Cat(<<KW_PARTE, Ws1, NumParte, FimDeLinha>>))>>)

_SPLIT_LIVRO ==
  Cat(<<Ch({"NL"}), Look(Cat(<<KW_LIVRO, Ws1, Romanos1, FimDeLinha>>))>>)

_SPLIT_TITULO ==
  Cat(<<Ch({"NL"}), Look(Cat(<<KW_TITULO, Ws1, RomanosLetra, FimDeLinha>>))>>)

_SPLIT_CAPITULO ==
  Cat(<<Ch({"NL"}), Look(Cat(<<KW_CAPITULO, Ws1, RomanosLetra, FimDeLinha>>))>>)

_SPLIT_SECAO ==
  Cat(<<Ch({"NL"}), Look(Cat(<<KW_SECAO, Ws1, RomanosLetra, FimDeLinha>>))>>)

_SPLIT_SUBSECAO ==
  Cat(<<Ch({"NL"}), Look(Cat(<<KW_SUBSECAO, Ws1, RomanosLetra, FimDeLinha>>))>>)

\* _RE_NUM[kind], all IGNORECASE
_RE_NUM(kind) ==
  CASE kind = "parte"    -> Cat(<<KW_PARTE, Ws1, Grp(1, NumParte)>>)
    [] kind = "livro"    -> Cat(<<KW_LIVRO, Ws1, Grp(1, Romanos1)>>)
    [] kind = "titulo"   -> Cat(<<KW_TITULO, Ws1, Grp(1, RomanosLetra)>>)
    [] kind = "capitulo" -> Cat(<<KW_CAPITULO, Ws1, Grp(1, RomanosLetra)>>)
    [] kind = "secao"    -> Cat(<<KW_SECAO, Ws1, Grp(1, RomanosLetra)>>)
    [] kind = "subsecao" -> Cat(<<KW_SUBSECAO, Ws1, Grp(1, RomanosLetra)>>)

\* IGNORECASE
_RE_ESTRUTURAL ==
  Cat(<<Bos,
        Alt(<<KW_TITULO, KW_CAPITULO, KW_SECAO, KW_SUBSECAO, KW_LIVRO, KW_PARTE,
              Cat(<<Lit(<<"A","r","t">>), Opt(Ch({"."})), Ws0, Ch(Digit)>>),
              Cat(<<Ch({"sect"}), Ws0, Ch(Digit)>>),
              Cat(<<Rep(Ch(Roman), 1, 7), Ws0, Ch({"-", "ndash"})>>)>>)>>)

\* one turn of the loop over the lines of the block
NomePasso(prev, linha, kind) ==
  LET s == Strip(linha)
      tr == _truncar_na_fronteira_artigo(s)
  IN IF prev.parou THEN prev
     ELSE IF ~prev.encontrou
       THEN [prev EXCEPT !.encontrou = Match(_RE_NUM(kind), s, TRUE).ok]
     ELSE IF Len(s) = 0
       THEN IF Len(prev.partes) = 0 THEN prev
            ELSE [prev EXCEPT !.vazias_apos_nome = @ + 1,
                              !.parou = (prev.vazias_apos_nome + 1 >= 2)]
     ELSE IF Match(_RE_ESTRUTURAL, s, TRUE).ok
       THEN [prev EXCEPT !.vazias_apos_nome = 0, !.parou = TRUE]
     ELSE IF StartsWith(s, <<"(">>) /\ EndsWith(s, <<")">>)
       THEN [prev EXCEPT !.vazias_apos_nome = 0]
     ELSE [prev EXCEPT !.vazias_apos_nome = 0,
                       !.partes = IF Len(tr) > 0 THEN Append(@, tr) ELSE @,
                       !.parou = (tr /= s)]

_extrair_nome(bloco, kind) ==
  LET linhas == SplitLines(bloco)
      st[k \in 0..Len(linhas)] ==
        IF k = 0 THEN [encontrou |-> FALSE, partes |-> <<>>,
                       vazias_apos_nome |-> 0, parou |-> FALSE]
        ELSE NomePasso(st[k - 1], linhas[k], kind)
  IN _truncar_na_fronteira_artigo(
       limpar_texto_final(Join(SP, st[Len(linhas)].partes)))

\* the loop shared by _parse_secoes, _parse_capitulos and _parse_titulos: a
\* piece that starts with the marker becomes a node, any other piece hands its
\* children to the caller's list; filhos names the routine of the next level
ParseNivel(split, kind, bloco, lei, ordem, filhos) ==
  LET partes == Split0(split, bloco, TRUE)
      acc[k \in 0..Len(partes)] ==
        IF k = 0 THEN [resultado |-> <<>>, ordem |-> ordem]
        ELSE LET prev == acc[k - 1]
                 parte == Strip(partes[k])
                 m == Match(_RE_NUM(kind), parte, TRUE)
                 f == Call(filhos, <<parte, lei, prev.ordem>>)
             IN IF m.ok
                THEN [resultado |->
                        Append(prev.resultado,
                               [tipo |-> kind, numero |-> Group(parte, m, 1),
                                nome |-> _extrair_nome(parte, kind),
                                filhos |-> f.resultado]),
                      ordem |-> f.ordem]
                ELSE [resultado |-> prev.resultado \o f.resultado,
                      ordem |-> f.ordem]
  IN acc[Len(partes)]

_parse_subsecoes(bloco, lei, ordem) ==
  LET partes == Split0(_SPLIT_SUBSECAO, bloco, TRUE)
      acc[k \in 0..Len(partes)] ==
        IF k = 0 THEN [resultado |-> <<>>, ordem |-> ordem]
        ELSE LET prev == acc[k - 1]
                 parte == Strip(partes[k])
                 m == Match(_RE_NUM("subsecao"), parte, TRUE)
                 nome == _extrair_nome(parte, "subsecao")
                 f == Call("_parse_artigos", <<parte, lei, prev.ordem>>)
             IN IF m.ok
                THEN [resultado |->
                        Append(prev.resultado,
                               [tipo |-> "subsecao",
                                numero |-> Group(parte, m, 1),
                                nome |-> nome,
                                confianca |-> IF Len(nome) > 0 THEN 100 ELSE 70,
                                artigos |-> f.resultado]),
                      ordem |-> f.ordem]
                ELSE [resultado |-> prev.resultado \o f.resultado,
                      ordem |-> f.ordem]
  IN acc[Len(partes)]

\* the sections, built as one more level of chapters
_parse_secoes_como_capitulos(bloco, lei, ordem) ==
  LET r == ParseNivel(_SPLIT_SECAO, "secao", bloco, lei, ordem,
                      "_parse_subsecoes")
  IN [r EXCEPT !.resultado =
        [k \in 1..Len(r.resultado) |->
           IF r.resultado[k].tipo = "secao"
           THEN [r.resultado[k] EXCEPT !.tipo = "capitulo"]
           ELSE r.resultado[k]]]

_parse_secoes(bloco, lei, ordem) ==
  ParseNivel(_SPLIT_SECAO, "secao", bloco, lei, ordem, "_parse_subsecoes")

_parse_capitulos(bloco, lei, ordem) ==
  ParseNivel(_SPLIT_CAPITULO, "capitulo", bloco, lei, ordem,
             "_parse_secoes")

_parse_titulos(bloco, lei, ordem) ==
  ParseNivel(_SPLIT_TITULO, "titulo", bloco, lei, ordem,
             "_parse_capitulos")

\* the first non-empty stripped line of the text, "" when there is none
PrimeiraNaoVazia(linhas) ==
  LET cheias == {k \in 1..Len(linhas) : Len(Strip(linhas[k])) > 0}
  IN IF cheias = {} THEN <<>> ELSE Strip(linhas[MinOf(cheias)])

\* re.match(r"^[.,;]$", s) of a stripped line
SoPontuacao(s) == Len(s) = 1 /\ s[1] \in {".", ",", ";"}

_parse_livros(bloco, lei, ordem) ==
  LET partes == Split0(_SPLIT_LIVRO, bloco, TRUE)
      acc[k \in 0..Len(partes)] ==
        IF k = 0 THEN [resultado |-> <<>>, ordem |-> ordem]
        ELSE LET prev == acc[k - 1]
                 parte == Strip(partes[k])
                 m == Match(_RE_NUM("livro"), parte, TRUE)
                 linhas == SplitLines(parte)
                 primeira == IF Len(linhas) = 0 THEN <<>>
                             ELSE PrimeiraNaoVazia(Tail(linhas))
                 f == Call("_parse_titulos", <<parte, lei, prev.ordem>>)
             IN IF m.ok /\ ~SoPontuacao(primeira)
                THEN [resultado |->
                        Append(prev.resultado,
                               [tipo |-> "livro", numero |-> Group(parte, m, 1),
                                nome |-> _extrair_nome(parte, "livro"),
                                filhos |-> f.resultado]),
                      ordem |-> f.ordem]
                ELSE [resultado |-> prev.resultado \o f.resultado,
                      ordem |-> f.ordem]
  IN acc[Len(partes)]

\* str.upper()
UpperStr(s) == [k \in 1..Len(s) |-> Upper(s[k])]

_parse_partes(bloco, lei, ordem) ==
  LET partes == Split0(_SPLIT_PARTE, bloco, TRUE)
      acc[k \in 0..Len(partes)] ==
        IF k = 0 THEN [resultado |-> <<>>, ordem |-> ordem]
        ELSE LET prev == acc[k - 1]
                 parte == Strip(partes[k])
                 m == Match(_RE_NUM("parte"), parte, TRUE)
                 tem_livro == Search(_SPLIT_LIVRO, parte, TRUE).ok
                 f == Call(IF tem_livro THEN "_parse_livros"
                           ELSE "_parse_titulos", <<parte, lei, prev.ordem>>)
             IN IF m.ok
                THEN [resultado |->
                        Append(prev.resultado,
                               [tipo |-> "parte",
                                numero |-> UpperStr(Group(parte, m, 1)),
                                nome |-> _extrair_nome(parte, "parte"),
                                filhos |-> f.resultado]),
                      ordem |-> f.ordem]
                ELSE [resultado |-> prev.resultado \o f.resultado,
                      ordem |-> f.ordem]
  IN acc[Len(partes)]

(***************************************************************************)
(* FASE 7 - auto-deteccao de raiz                                           *)
(***************************************************************************)
\* the four patterns of padroes: a marker alone on its line, IGNORECASE
PadraoRaiz(kind) ==
  CASE kind = "parte" ->
         Cat(<<Ch({"NL"}), KW_PARTE, Ws1, NumParte, FimDeLinha>>)
    [] kind = "livro" ->
         Cat(<<Ch({"NL"}), KW_LIVRO, Ws1, Romanos1, FimDeLinha>>)
    [] kind = "titulo" ->
         Cat(<<Ch({"NL"}), KW_TITULO, Ws1, RomanosLetra, FimDeLinha>>)
    [] kind = "capitulo" ->
         Cat(<<Ch({"NL"}), KW_CAPITULO, Ws1, RomanosLetra, FimDeLinha>>)

\* \nLIVRO\s+[IVXLCDM]+\s*\n
LivroSeguido ==
  Cat(<<Ch({"NL"}), KW_LIVRO, Ws1, Romanos1, Ws0, Ch({"NL"})>>)

\* the number of LIVRO markers whose next non-empty line is more than one
\* punctuation mark
LivrosReais(t) ==
  LET ms == FindAll(LivroSeguido, t, TRUE)
      real(m) ==
        LET p == PrimeiraNaoVazia(SplitLines(SubSeq(t, m.e, Len(t))))
        IN Len(p) > 0 /\ ~SoPontuacao(p)
  IN Cardinality({k \in 1..Len(ms) : real(ms[k])})

_detectar_raiz(t) ==
  LET pos(kind) == Search(PadraoRaiz(kind), t, TRUE)
      candidatos == {kind \in {"parte", "livro", "titulo", "capitulo"} :
                       /\ pos(kind).ok
                       /\ (kind = "livro" => LivrosReais(t) > 0)}
  IN IF candidatos = {} THEN "artigo"
     ELSE CHOOSE c \in candidatos :
            \A d \in candidatos : pos(c).b <= pos(d).b

(***************************************************************************)
(* PARSE PRINCIPAL                                                          *)
(***************************************************************************)
\* (Estabelece|Dispõe|Define|Institui|Regulamenta|Cria|Altera)[^.]+\.
RE_EMENTA ==
  Cat(<<Grp(1, Alt(<<Lit(<<"E","s","t","a","b","e","l","e","c","e">>),
                     Lit(<<"D","i","s","p","otil","e">>),
                     Lit(<<"D","e","f","i","n","e">>),
                     Lit(<<"I","n","s","t","i","t","u","i">>),
                     Lit(<<"R","e","g","u","l","a","m","e","n","t","a">>),
                     Lit(<<"C","r","i","a">>),
                     Lit(<<"A","l","t","e","r","a">>)>>)),
        Plus(NotCh({"."})), Ch({"."})>>)

\* the branch of parse_lei for a law whose root is CAPITULO: the text before
\* the first marker, split(texto)[0], is not parsed, and neither is a piece
\* that does not start with the marker
RaizCapitulo(t, lei) ==
  LET partes == Tail(Split0(_SPLIT_CAPITULO, t, TRUE))
      acc[k \in 0..Len(partes)] ==
        IF k = 0 THEN [resultado |-> <<>>, ordem |-> 0]
        ELSE LET prev == acc[k - 1]
                 parte == Strip(partes[k])
                 m == Match(_RE_NUM("capitulo"), parte, TRUE)
                 f == Call("_parse_secoes", <<parte, lei, prev.ordem>>)
             IN IF m.ok
                THEN [resultado |->
                        Append(prev.resultado,
                               [tipo |-> "capitulo",
                                numero |-> Group(parte, m, 1),
                                nome |-> _extrair_nome(parte, "capitulo"),
                                filhos |-> f.resultado]),
                      ordem |-> f.ordem]
                ELSE prev
  IN acc[Len(partes)]

\* parse_lei after normalisation: t is the normalised text
ParseNormalizado(t, codigo_lei) ==
  LET m_ementa == Search(RE_EMENTA, t, FALSE)
      ementa == IF m_ementa.ok THEN limpar_texto_final(Whole(t, m_ementa))
                ELSE <<>>
      raiz == _detectar_raiz(t)
      r == CASE raiz = "parte"    -> Call("_parse_partes", <<t, codigo_lei, 0>>)
             [] raiz = "livro"    -> Call("_parse_livros", <<t, codigo_lei, 0>>)
             [] raiz = "titulo"   -> Call("_parse_titulos", <<t, codigo_lei, 0>>)
             [] raiz = "capitulo" -> Call("RaizCapitulo", <<t, codigo_lei>>)
             [] OTHER             -> Call("_parse_artigos", <<t, codigo_lei, 0>>)
  IN [lei |-> [codigo |-> codigo_lei, ementa |-> ementa],
      titulos |-> r.resultado]

parse_lei(t, codigo_lei) == ParseNormalizado(normalizar_texto(t), codigo_lei)

RECURSIVE _dfs(_)
\* the articles under a node, in document order
_dfs(node) ==
  LET filhos(chave) ==
        IF chave \in DOMAIN node
        THEN Flatten([k \in 1..Len(node[chave]) |-> _dfs(node[chave][k])])
        ELSE <<>>
  IN IF "tipo" \in DOMAIN node /\ node.tipo = "artigo" THEN <<node>>
     ELSE filhos("titulos") \o filhos("filhos") \o filhos("artigos")
          \o filhos("estrutura")

iterar_artigos(resultado) == _dfs(resultado)

(***************************************************************************)
(* crossref.py                                                              *)
(***************************************************************************)
\* d[oa]s? and n[oa]s?
DoDa == Cat(<<Ch({"d"}), Ch({"o","a"}), Opt(Ch({"s"}))>>)

NoNa == Cat(<<Ch({"n"}), Ch({"o","a"}), Opt(Ch({"s"}))>>)

REFERIDOS == Cat(<<Lit(<<"r","e","f","e","r","i","d","o">>), Opt(Ch({"s"})), Ws1,
                   NoNa>>)

A_QUE_SE_REFERE ==
  Cat(<<Ch({"a"}), Ws1, Lit(<<"q","u","e">>), Ws1, Lit(<<"s","e">>), Ws1,
        Lit(<<"r","e","f","e","r","e">>)>>)

\* the optional anchor at the head of _RE_CROSSREF
AncoraOpcional ==
  Opt(Alt(<<
    Cat(<<Ch({"n"}), Ch({"o"}), Opt(Ch({"s"})), Ws1,
          Lit(<<"t","e","r","m","o">>), Opt(Ch({"s"})), Ws1, DoDa>>),
    Cat(<<Lit(<<"c","o","n","f","o","r","m","e">>), Ws1,
          Opt(Cat(<<Ch({"o"}), Ws1>>)),
          Lit(<<"d","i","s","p","o","s","t","o">>), Ws1, NoNa>>),
    Cat(<<Lit(<<"p","r","e","v","i","s","t","o">>), Ws1, NoNa>>),
    Cat(<<Lit(<<"n","a">>), Ws1, Lit(<<"f","o","r","m","a">>), Ws1, DoDa>>),
    Cat(<<Ch({"n"}), Ch({"o"}), Opt(Ch({"s"})), Ws1,
          Lit(<<"m","o","l","d","e","s">>), Ws1, DoDa>>),
    Cat(<<Alt(<<A_QUE_SE_REFERE, REFERIDOS>>), Ws1>>)>>))

\* IGNORECASE; g1 article, g2/g3 paragraph, g4 inciso, g5 alinea
_RE_CROSSREF ==
  Cat(<<AncoraOpcional,
        Lit(<<"a","r","t">>), Opt(Lit(<<"i","g","o">>)), Opt(Ch({"s"})),
        Opt(Ch({"."})), Ws0,
        Grp(1, Cat(<<Digits1, Opt(Ch(Ordinal)), SufixoLetra>>)),
        Opt(Cat(<<Plus(Ch({","} \cup Space)),
                  Alt(<<Cat(<<Ch({"sect"}), Ws0,
                              Grp(2, Cat(<<Digits1, Opt(Ch(Ordinal))>>))>>),
                        Cat(<<Lit(<<"p","a","r">>), Ch({"a","aac"}),
                              Lit(<<"g","r","a","f","o">>), Ws1,
                              Alt(<<Grp(3, Digits1),
                                    Lit(<<"uac","n","i","c","o">>)>>)>>)>>)>>)),
        Opt(Cat(<<Plus(Ch({","} \cup Space \cup Ordinal)),
                  Lit(<<"i","n","c","i","s","o">>), Ws1, Grp(4, Romanos1)>>)),
        Opt(Cat(<<Plus(Ch({","} \cup Space)),
                  Lit(<<"a","l">>), Ch({"iac","igr"}), Lit(<<"n","e","a">>), Ws1,
                  Opt(Ch({"APOS","QUOT"})), Grp(5, Ch(AsciiLower)),
                  Opt(Ch({"APOS","QUOT"}))>>))>>)

\* d[ao]\s+Lei(?:\s+Complementar)?\s+n[°º]?\s*([\d.]+), IGNORECASE
_RE_LEI_OUTRA ==
  Cat(<<Ch({"d"}), Ch({"a","o"}), Ws1, Lit(<<"L","e","i">>),
        Opt(Cat(<<Ws1, Lit(<<"C","o","m","p","l","e","m","e","n","t","a","r">>)>>)),
        Ws1, Ch({"n"}), Opt(Ch({"deg","ordm"})), Ws0,
        Grp(1, Plus(Ch(Digit \cup {"."})))>>)

\* IGNORECASE: an anchor phrase at the end of the text before the match
_CTX_VERBAL ==
  Cat(<<Alt(<<
    Cat(<<Ch({"n"}), Ch({"o"}), Opt(Ch({"s"})), Ws1,
          Lit(<<"t","e","r","m","o">>), Opt(Ch({"s"})), Ws1, DoDa>>),
    Cat(<<Opt(Cat(<<Lit(<<"c","o","n","f","o","r","m","e">>), Ws1>>)),
          Lit(<<"d","i","s","p","o","s","t","o">>), Ws1, NoNa>>),
    Cat(<<Lit(<<"p","r","e","v","i","s","t","o">>), Ws1, NoNa>>),
    Cat(<<Lit(<<"n","a">>), Ws1, Lit(<<"f","o","r","m","a">>), Ws1, DoDa>>),
    Cat(<<Lit(<<"n","o","s">>), Ws1, Lit(<<"m","o","l","d","e","s">>), Ws1, DoDa>>),
    Cat(<<A_QUE_SE_REFERE, Opt(Ch({"m","n"})), Ws1,
          Rep(Cat(<<Plus(Ch(WordCh)), Ws1>>), 0, 3),
          Ch({"d"}), Ch({"o","a"})>>),
    REFERIDOS>>),
    Ws0, Eos>>)

\* the window of text looked at before a match
JANELA_CONTEXTO == 60

\* the cap on the length of trecho
TRECHO_MAX == 120

\* m.group(k), None when the group took no part in the match
GroupOrNone(s, m, k) == IF HasGroup(m, k) THEN Group(s, m, k) ELSE None

\* the text before the match that extrair_crossrefs looks at
ContextoAntes(t, m) == SubSeq(t, MaxOf({1, m.b - JANELA_CONTEXTO}), m.b - 1)

TemContexto(t, m) == Search(_CTX_VERBAL, ContextoAntes(t, m), TRUE).ok

TemDetalhe(t, m) == HasGroup(m, 2) \/ HasGroup(m, 3) \/ HasGroup(m, 4)

\* the dict appended to refs for a match that is kept
UmaRef(t, m, artigo_origem_id) ==
  LET trecho == Strip(Whole(t, m))
      lei_ext_m == Search(_RE_LEI_OUTRA, ContextoAntes(t, m) \o trecho, TRUE)
  IN [origem |-> artigo_origem_id,
      destino_art |-> Group(t, m, 1),
      destino_para |-> IF HasGroup(m, 2) THEN Group(t, m, 2)
                       ELSE GroupOrNone(t, m, 3),
      destino_inc |-> GroupOrNone(t, m, 4),
      destino_alinea |-> GroupOrNone(t, m, 5),
      lei_externa |-> IF lei_ext_m.ok
                      THEN Group(ContextoAntes(t, m) \o trecho, lei_ext_m, 1)
                      ELSE None,
      trecho |-> SubSeq(trecho, 1, MinOf({TRECHO_MAX, Len(trecho)}))]

extrair_crossrefs(t, artigo_origem_id, codigo_lei) ==
  LET ms == FindAll(_RE_CROSSREF, t, TRUE)
      keep == SelectSeq(ms, LAMBDA m : TemContexto(t, m) \/ TemDetalhe(t, m))
  IN [k \in 1..Len(keep) |-> UmaRef(t, keep[k], artigo_origem_id)]

\* obj.get("tipo")
TipoDe(obj) == IF "tipo" \in DOMAIN obj THEN obj.tipo ELSE "None"

\* obj[key] when the dict has the key, else the empty list
Lista(obj, key) == IF key \in DOMAIN obj THEN obj[key] ELSE <<>>

RECURSIVE TextosConteudo(_)
\* the "texto" values under a conteudo dict, in the order _extrair meets them
TextosConteudo(c) ==
  (IF "texto" \in DOMAIN c THEN <<c.texto>> ELSE <<>>)
  \o Flatten([k \in 1..Len(Lista(c, "incisos")) |->
                IF "conteudo" \in DOMAIN c.incisos[k]
                THEN TextosConteudo(c.incisos[k].conteudo) ELSE <<>>])
  \o Flatten([k \in 1..Len(Lista(c, "alineas")) |->
                IF "texto" \in DOMAIN c.alineas[k]
                THEN <<c.alineas[k].texto>> ELSE <<>>])

_texto_artigo(artigo) ==
  LET estrutura == Lista(artigo, "estrutura")
  IN Join(SP, Flatten([k \in 1..Len(estrutura) |->
                         IF "conteudo" \in DOMAIN estrutura[k]
                         THEN TextosConteudo(estrutura[k].conteudo)
                         ELSE <<>>]))

RECURSIVE crossref_coletar_artigos(_)
\* _coletar_artigos of crossref.py: every article node under obj
crossref_coletar_artigos(obj) ==
  LET sub(chave) ==
        Flatten([k \in 1..Len(Lista(obj, chave)) |->
                   crossref_coletar_artigos(obj[chave][k])])
  IN IF TipoDe(obj) = "artigo" THEN <<obj>>
     ELSE sub("titulos") \o sub("filhos") \o sub("artigos")

extrair_crossrefs_estrutura(estrutura, codigo_lei) ==
  LET artigos == crossref_coletar_artigos(estrutura)
  IN Flatten([k \in 1..Len(artigos) |->
                LET texto_completo == _texto_artigo(artigos[k])
                IN IF Len(texto_completo) = 0 THEN <<>>
                   ELSE extrair_crossrefs(texto_completo, artigos[k].id,
                                          codigo_lei)])

(***************************************************************************)
(* validator.py                                                             *)
(***************************************************************************)
RECURSIVE validator_coletar_artigos_sem_filhos(_)
\* _coletar_artigos that does not look under the key "filhos"
validator_coletar_artigos_sem_filhos(no) ==
  LET sub(chave) ==
        Flatten([k \in 1..Len(Lista(no, chave)) |->
                   validator_coletar_artigos_sem_filhos(no[chave][k])])
  IN IF TipoDe(no) = "artigo" THEN <<no>>
     ELSE sub("artigos") \o sub("titulos")
          \o sub("capitulos") \o sub("secoes") \o sub("subsecoes")

RECURSIVE validator_coletar_artigos(_)
\* _coletar_artigos of validator.py: an article node is not descended into
validator_coletar_artigos(no) ==
  LET sub(chave) ==
        Flatten([k \in 1..Len(Lista(no, chave)) |->
                   validator_coletar_artigos(no[chave][k])])
  IN IF TipoDe(no) = "artigo" THEN <<no>>
     ELSE sub("filhos") \o sub("artigos") \o sub("titulos")
          \o sub("capitulos") \o sub("secoes") \o sub("subsecoes")

\* decided by the first caput block
_caput_tem_texto(estrutura) ==
  LET caputs == {k \in 1..Len(estrutura) :
                   TipoDe(estrutura[k]) = "caput"
                   /\ "conteudo" \in DOMAIN estrutura[k]}
      c == estrutura[MinOf(caputs)].conteudo
  IN /\ caputs /= {}
     /\ \/ Len(Strip(IF "texto" \in DOMAIN c THEN c.texto ELSE <<>>)) > 0
        \/ Len(Lista(c, "incisos")) > 0

_artigo_revogado(artigo) ==
  LET alts == Lista(artigo, "alteracoes")
      estrutura == Lista(artigo, "estrutura")
  IN \/ \E k \in 1..Len(alts) : TipoDe(alts[k]) = "revogado"
     \/ \E k \in 1..Len(estrutura) :
          /\ TipoDe(estrutura[k]) = "caput"
          /\ "conteudo" \in DOMAIN estrutura[k]
          /\ "texto" \in DOMAIN estrutura[k].conteudo
          /\ Contains(LowerStr(estrutura[k].conteudo.texto),
                      <<"r","e","v","o","g","a","d","o">>)

\* _validar_conteudo: what one block adds to the three lists of the report
AvisosConteudo(conteudo) ==
  LET incisos == Lista(conteudo, "incisos")
      alineas == Lista(conteudo, "alineas")
      fora(als) ==
        Cardinality({k \in 1..Len(als) : TipoDe(als[k]) /= "alinea"})
  IN [warnings |->
        Cardinality({k \in 1..Len(incisos) : TipoDe(incisos[k]) /= "inciso"}),
      incisos_sem_conteudo |->
        Cardinality({k \in 1..Len(incisos) :
                       "conteudo" \notin DOMAIN incisos[k]}),
      alineas_fora_de_lugar |->
        fora(alineas)
        + Cardinality({k \in 1..Len(incisos) :
                         /\ "conteudo" \in DOMAIN incisos[k]
                         /\ fora(Lista(incisos[k].conteudo, "alineas")) > 0})]

RECURSIVE Soma(_)
\* sum of a sequence of numbers
Soma(ns) == IF Len(ns) = 0 THEN 0 ELSE Head(ns) + Soma(Tail(ns))

\* _contar_no of one conteudo
ContarNo(conteudo) ==
  LET incisos == Lista(conteudo, "incisos")
  IN [total_incisos |-> Len(incisos),
      total_alineas |->
        Soma([k \in 1..Len(incisos) |->
                IF "conteudo" \in DOMAIN incisos[k]
                THEN Len(Lista(incisos[k].conteudo, "alineas")) ELSE 0])
        + Len(Lista(conteudo, "alineas"))]

\* every block of every article, in order
Blocos(artigos) ==
  Flatten([k \in 1..Len(artigos) |-> Lista(artigos[k], "estrutura")])

_contar_incisos_e_alineas(artigos) ==
  LET nos == SelectSeq(Blocos(artigos), LAMBDA b : "conteudo" \in DOMAIN b)
  IN [total_incisos |->
        Soma([k \in 1..Len(nos) |-> ContarNo(nos[k].conteudo).total_incisos]),
      total_alineas |->
        Soma([k \in 1..Len(nos) |-> ContarNo(nos[k].conteudo).total_alineas])]

\* f"Título {numero} — {nome}"
ChaveTitulo(titulo) ==
  <<"T","iac","t","u","l","o","SP">>
  \o (IF "numero" \in DOMAIN titulo THEN titulo.numero ELSE <<"?">>)
  \o <<"SP","mdash","SP">>
  \o (IF "nome" \in DOMAIN titulo THEN titulo.nome ELSE <<>>)

\* artigo.get("id", f"sem-id-{numero}")
IdDe(artigo) ==
  IF "id" \in DOMAIN artigo THEN artigo.id
  ELSE <<"s","e","m","-","i","d","-">>
       \o (IF "numero" \in DOMAIN artigo THEN artigo.numero ELSE <<"?">>)

\* The report of a Document.  The five lists that validar_estrutura passes
\* through sorted(set(...)) and ids_duplicados hold each id once: they are
\* the sets of those ids.  The timestamp is left out.
validar_estrutura(dados) ==
  LET arvore == Lista(dados, "titulos")
      todos == validator_coletar_artigos([titulos |-> arvore])
      N == Len(todos)
      vazio(k) == Len(Lista(todos[k], "estrutura")) = 0
      cheios == {k \in 1..N : ~vazio(k)}
      blocos(k) == SelectSeq(todos[k].estrutura,
                             LAMBDA b : TipoDe(b) \in {"caput", "paragrafo"})
      \* a block without conteudo gets the warning "conteudo None"
      avisos(k, campo) ==
        Soma([j \in 1..Len(blocos(k)) |->
                IF "conteudo" \in DOMAIN blocos(k)[j]
                THEN AvisosConteudo(blocos(k)[j].conteudo)[campo]
                ELSE IF campo = "warnings" THEN 1 ELSE 0])
      chaves == {ChaveTitulo(arvore[k]) : k \in 1..Len(arvore)}
  IN [lei |-> IF "lei" \in DOMAIN dados THEN dados.lei ELSE <<>>,
      total_artigos |-> N,
      total_titulos |-> Len(arvore),
      artigos_por_titulo |->
        [ch \in chaves |->
           LET k == MaxOf({j \in 1..Len(arvore) : ChaveTitulo(arvore[j]) = ch})
           IN Len(validator_coletar_artigos(arvore[k]))],
      artigos_vazios |-> {IdDe(todos[k]) : k \in {j \in 1..N : vazio(j)}},
      artigos_sem_texto_caput |->
        {IdDe(todos[k]) : k \in {j \in cheios :
                                   ~_caput_tem_texto(todos[j].estrutura)}},
      artigos_revogados |->
        {IdDe(todos[k]) : k \in {j \in cheios : _artigo_revogado(todos[j])}},
      ids_duplicados |->
        {IdDe(todos[k]) : k \in {j \in 1..N :
                                   \E i \in 1..(j - 1) :
                                      IdDe(todos[i]) = IdDe(todos[j])}},
      incisos_sem_conteudo |->
        {IdDe(todos[k]) : k \in {j \in cheios :
                                   avisos(j, "incisos_sem_conteudo") > 0}},
      alineas_fora_de_lugar |->
        {IdDe(todos[k]) : k \in {j \in cheios :
                                   avisos(j, "alineas_fora_de_lugar") > 0}},
      estatisticas |-> _contar_incisos_e_alineas(todos),
      warnings |-> Soma([k \in 1..N |->
                           IF vazio(k) THEN 0 ELSE avisos(k, "warnings")])]

(***************************************************************************)
(* The routines entered by name                                             *)
(***************************************************************************)
Call(f, a) ==
  CASE f = "Match" -> MatchAt(a[1], a[2], a[3])
    [] f = "SearchFrom" -> SearchAt(a[1], a[2], a[3], a[4])
    [] f = "FindAll" -> FindFrom(a[1], a[2], 1, a[3])
    [] f = "normalizar_texto" -> normalizar_texto(a[1])
    [] f = "extrair_metadados" -> extrair_metadados(a[1])
    [] f = "extrair_alineas" -> extrair_alineas(a[1])
    [] f = "extrair_incisos" -> extrair_incisos(a[1])
    [] f = "extrair_paragrafos" -> extrair_paragrafos(a[1])
    [] f = "_parse_artigos" -> _parse_artigos(a[1], a[2], a[3])
    [] f = "_parse_subsecoes" -> _parse_subsecoes(a[1], a[2], a[3])
    [] f = "_parse_secoes" -> _parse_secoes(a[1], a[2], a[3])
    [] f = "_parse_capitulos" -> _parse_capitulos(a[1], a[2], a[3])
    [] f = "_parse_titulos" -> _parse_titulos(a[1], a[2], a[3])
    [] f = "_parse_livros" -> _parse_livros(a[1], a[2], a[3])
    [] f = "_parse_partes" -> _parse_partes(a[1], a[2], a[3])
    [] f = "RaizCapitulo" -> RaizCapitulo(a[1], a[2])
    [] f = "_detectar_raiz" -> _detectar_raiz(a[1])
    [] f = "ParseNormalizado" -> ParseNormalizado(a[1], a[2])
    [] f = "extrair_crossrefs" -> extrair_crossrefs(a[1], a[2], a[3])
    [] f = "extrair_crossrefs_estrutura" ->
         extrair_crossrefs_estrutura(a[1], a[2])

(***************************************************************************)
(* Inputs                                                                   *)
(***************************************************************************)
\* the longest downloaded text, in lines
MaxLinhas == 3

\* the lines a downloaded text is made of
Linhas ==
  <<<<"A","r","t",".","SP","5","SP","A","SP","t","e","x","t","o",".">>,
    <<"A","r","t",".","SP","5","ordm","SP","B">>,
    <<"C","A","P","Iac","T","U","L","O","SP","I">>,
    <<"I","SP","-","SP","u","m",";">>,
    <<"a",")","SP","x","SP","(","I","n","c","l","u","iac","d","o","SP","p","e","l",
      "a","SP","L","e","i","SP","n","ordm","SP","1",")">>,
    <<"C","r","i","a","SP","x">>,
    <<"A","r","t",".","SP","3",",","SP","c","i","t","a","d","o">>,
    <<"sect","SP","1","ordm","SP","P","FF","Q",".">>>>

\* all sequences over the members of a tuple, of length 1 to n
SeqsAte(itens, n) ==
  UNION {[1..k -> {itens[j] : j \in 1..Len(itens)}] : k \in 1..n}

Textos == {Join(NL, ls) : ls \in SeqsAte(Linhas, MaxLinhas)}

\* the code of the law given to run
CODIGO == <<"1">>

\* run called for the one law CODIGO, outside run_batch
SemLote ==
  /\ codigos = <<CODIGO>>
  /\ idx = 1
  /\ resultados = <<>>
  /\ erros = <<>>
  /\ lote = "nenhum"

\* the download is taken by its outcome: the rate limiter stays as constructed
SemLimiter ==
  /\ relogio = 0
  /\ limiter = [locks |-> <<>>, tokens |-> <<>>, ultimo |-> <<>>, rpm |-> <<>>]
  /\ fios = <<>>
  /\ retornos = <<>>
  /\ cache = <<>>
  /\ http = <<>>

\* the code of the law being processed by run
CodigoAtual == codigos[idx]

Init == /\ pc = "start"
        /\ raw \in Textos
        /\ texto = <<>>
        /\ texto2 = <<>>
        /\ doc = <<>>
        /\ refs = <<>>
        /\ relatorio = <<>>
        /\ saida = "none"
        /\ SemLote
        /\ SemLimiter
        /\ ret = <<>>

\* ETAPA 2 of run: parse_lei, which normalises first
Parse ==
  /\ pc = "start"
  /\ texto' = Call("normalizar_texto", <<raw>>)
  /\ doc' = Call("ParseNormalizado", <<texto', CodigoAtual>>)
  /\ pc' = "parsed"
  /\ UNCHANGED <<raw, texto2, refs, relatorio, saida, loteVars, limVars, ret>>

\* art.get("confianca", 1.0) < 0.7 sends an article to the repair
CONF_REPARO == 70

\* dados["confianca_ia"] = 0.9
CONFIANCA_IA == 90

\* the replies of the language model to one article: none that passes the
\* schema check, a structure without blocks, a structure of one caput, or a
\* structure of one caput under another article number
RespostasIA == {"nenhuma", "vazia", "caput", "renumerado"}

\* a repair that also renumbers the article in the document order
Reparado_com_ordem(art, resposta) ==
  IF resposta = "nenhuma" THEN art
  ELSE [art EXCEPT !.estrutura = <<>>, !.confianca = CONFIANCA_IA, !.ordem = 0]
       @@ ("reparado_ia" :> TRUE)

\* the article after smart_parser.recuperar_artigo answered
Reparado(art, resposta) ==
  IF resposta = "nenhuma" THEN art
  ELSE [art EXCEPT
          !.numero = IF resposta = "renumerado" THEN <<"9">> ELSE @,
          !.estrutura = IF resposta = "vazia" THEN <<>>
                        ELSE <<[tipo |-> "caput",
                                conteudo |-> [texto |-> <<"x">>]]>>,
          !.confianca = CONFIANCA_IA]
       @@ ("reparado_ia" :> TRUE)

RECURSIVE SubstituiArtigos(_, _, _)
\* the tree with its articles, in document order, replaced by novos; k counts
\* the articles met so far
SubstituiArtigos(node, novos, k) ==
  IF TipoDe(node) = "artigo" THEN [no |-> novos[k + 1], k |-> k + 1]
  ELSE LET chave == CHOOSE c \in {"titulos", "filhos", "artigos"} :
                      c \in DOMAIN node
           filhos == node[chave]
           acc[j \in 0..Len(filhos)] ==
             IF j = 0 THEN [nos |-> <<>>, k |-> k]
             ELSE LET prev == acc[j - 1]
                      r == SubstituiArtigos(filhos[j], novos, prev.k)
                  IN [nos |-> Append(prev.nos, r.no), k |-> r.k]
           fim == acc[Len(filhos)]
       IN [no |-> [node EXCEPT ![chave] = fim.nos], k |-> fim.k]

\* ETAPA 2.5 of run with smart_parser.enabled: every article of low
\* confidence is sent to the model and takes its reply
Reparo ==
  /\ pc = "parsed"
  /\ LET arts == iterar_artigos(doc)
         baixa == {k \in 1..Len(arts) :
                     /\ arts[k].confianca < CONF_REPARO
                     /\ Len(arts[k].texto_bruto) > 0}
     IN \E resp \in [baixa -> RespostasIA] :
          doc' = SubstituiArtigos(
                   doc,
                   [k \in 1..Len(arts) |->
                      IF k \in baixa THEN Reparado(arts[k], resp[k])
                      ELSE arts[k]],
                   0).no
  /\ pc' = "reparado"
  /\ UNCHANGED <<raw, texto, texto2, refs, relatorio, saida, loteVars, limVars, ret>>

\* ETAPA 2.5 with the smart parser switched off
ReparoDesligado ==
  /\ pc = "parsed"
  /\ pc' = "reparado"
  /\ UNCHANGED <<raw, texto, texto2, doc, refs, relatorio, saida, loteVars, limVars, ret>>

\* ETAPA 3 of run
Crossrefs ==
  /\ pc = "reparado"
  /\ refs' = Call("extrair_crossrefs_estrutura", <<doc, CodigoAtual>>)
  /\ pc' = "refs"
  /\ UNCHANGED <<raw, texto, texto2, doc, relatorio, saida, loteVars, limVars, ret>>

\* ETAPA 3 with extrair_refs = False
CrossrefsPulado ==
  /\ pc = "reparado"
  /\ refs' = <<>>
  /\ pc' = "refs"
  /\ UNCHANGED <<raw, texto, texto2, doc, relatorio, saida, loteVars, limVars, ret>>

\* PRECISAO_MINIMA_ARTIGOS = 0.95, in hundredths
PRECISAO_MINIMA_ARTIGOS == 95

\* precisao = 1.0 - (vazios / total) as the fraction num / den
Precisao(rel) ==
  [num |-> rel.total_artigos - Cardinality(rel.artigos_vazios),
   den |-> rel.total_artigos]

\* precisao < PRECISAO_MINIMA_ARTIGOS
AbaixoDoMinimo(rel) ==
  100 * Precisao(rel).num < PRECISAO_MINIMA_ARTIGOS * Precisao(rel).den

\* run without the check of the threshold
Guarda_sem_limite(rel) == "ok"

\* how run ends on a report: sys.exit(2) or the returned dict
Guarda(rel) ==
  IF rel.total_artigos > 0 /\ AbaixoDoMinimo(rel) THEN "exit2" ELSE "ok"

\* ETAPA 4 of run: validation and the quality gate
Validacao ==
  /\ pc = "refs"
  /\ relatorio' = validar_estrutura(doc)
  /\ saida' = Guarda(relatorio')
  /\ pc' = "done"
  /\ UNCHANGED <<raw, texto, texto2, doc, refs, loteVars, limVars, ret>>

Next ==
  \/ Parse
  \/ Reparo
  \/ ReparoDesligado
  \/ Crossrefs
  \/ CrossrefsPulado
  \/ Validacao

Spec == Init /\ [][Next]_vars

(***************************************************************************)
(* run_batch: run for each code of a list                                   *)
(***************************************************************************)
\* the longest list of codes
MaxCodigos == 2

\* _LEIS: the codes of the catalogue
Catalogo == {<<"1">>, <<"2">>}

\* the lists of codes given to run_batch: codes of the catalogue and the
\* unknown code "x"
ListasDeCodigos == SeqsAte(<<<<"1">>, <<"2">>, <<"x">>>>, MaxCodigos)

\* the texts a download gives
TextosLote == {Linhas[1], Linhas[2]}

InitLote == /\ pc = "idle"
            /\ raw = <<>>
            /\ texto = <<>>
            /\ texto2 = <<>>
            /\ doc = <<>>
            /\ refs = <<>>
            /\ relatorio = <<>>
            /\ saida = "none"
            /\ codigos \in ListasDeCodigos
            /\ idx = 0
            /\ resultados = <<>>
            /\ erros = <<>>
            /\ lote = "loop"
            /\ SemLimiter
            /\ ret = <<>>

\* the next code is not in the catalogue: baixar_lei raises KeyError, which
\* run_batch catches and records
LoteForaDoCatalogo ==
  /\ lote = "loop"
  /\ idx < Len(codigos)
  /\ codigos[idx + 1] \notin Catalogo
  /\ idx' = idx + 1
  /\ erros' = Append(erros, [codigo |-> codigos[idx + 1], erro |-> "KeyError"])
  /\ UNCHANGED <<pc, raw, texto, texto2, doc, refs, relatorio, saida, codigos,
                 resultados, lote, limVars, ret>>

\* the download of the next code fails after its retries: an Exception, which
\* run_batch catches and records
LoteFalhaDownload ==
  /\ lote = "loop"
  /\ idx < Len(codigos)
  /\ codigos[idx + 1] \in Catalogo
  /\ idx' = idx + 1
  /\ erros' = Append(erros, [codigo |-> codigos[idx + 1], erro |-> "Exception"])
  /\ UNCHANGED <<pc, raw, texto, texto2, doc, refs, relatorio, saida, codigos,
                 resultados, lote, limVars, ret>>

\* ETAPA 1 of run for the next code: the text is downloaded
LoteDownload ==
  /\ lote = "loop"
  /\ idx < Len(codigos)
  /\ codigos[idx + 1] \in Catalogo
  /\ idx' = idx + 1
  /\ raw' \in TextosLote
  /\ pc' = "start"
  /\ lote' = "run"
  /\ texto' = <<>>
  /\ doc' = <<>>
  /\ refs' = <<>>
  /\ relatorio' = <<>>
  /\ saida' = "none"
  /\ UNCHANGED <<texto2, codigos, resultados, erros, limVars, ret>>

\* run returned: its result is appended with status "ok"
LoteRegista ==
  /\ lote = "run"
  /\ pc = "done"
  /\ saida = "ok"
  /\ resultados' = Append(resultados, [codigo |-> codigos[idx], status |-> "ok"])
  /\ lote' = "loop"
  /\ pc' = "idle"
  /\ UNCHANGED <<raw, texto, texto2, doc, refs, relatorio, saida, codigos, idx,
                 erros, limVars, ret>>

\* run called sys.exit(2): SystemExit is not an Exception, no except clause of
\* run_batch catches it and it leaves run_batch
LoteInterrompido ==
  /\ lote = "run"
  /\ pc = "done"
  /\ saida = "exit2"
  /\ lote' = "SystemExit"
  /\ pc' = "idle"
  /\ UNCHANGED <<raw, texto, texto2, doc, refs, relatorio, saida, codigos, idx,
                 resultados, erros, limVars, ret>>

\* the list is exhausted: run_batch returns resultados
LoteFim ==
  /\ lote = "loop"
  /\ idx = Len(codigos)
  /\ lote' = "fim"
  /\ UNCHANGED <<pc, raw, texto, texto2, doc, refs, relatorio, saida, codigos,
                 idx, resultados, erros, limVars, ret>>

NextLote ==
  \/ LoteForaDoCatalogo
  \/ LoteFalhaDownload
  \/ LoteDownload
  \/ Parse
  \/ Reparo
  \/ ReparoDesligado
  \/ Crossrefs
  \/ CrossrefsPulado
  \/ Validacao
  \/ LoteRegista
  \/ LoteInterrompido
  \/ LoteFim

SpecLote == InitLote /\ [][NextLote]_vars

(***************************************************************************)
(* run applied to texts of articles of several ids                          *)
(***************************************************************************)
\* the longest text, in lines
MaxLinhasVal == 3

\* the lines a text is made of: "CAPÍTULO I", "Art. 5º.", "Art. 5º B" and
\* "Art. 1º A."
LinhasVal ==
  <<<<"C","A","P","Iac","T","U","L","O","SP","I">>,
    <<"A","r","t",".","SP","5","ordm",".">>,
    <<"A","r","t",".","SP","5","ordm","SP","B">>,
    <<"A","r","t",".","SP","1","ordm","SP","A",".">>>>

\* the texts of 1 to MaxLinhasVal lines
TextosVal == {Join(NL, ls) : ls \in SeqsAte(LinhasVal, MaxLinhasVal)}

InitVal == /\ pc = "start"
           /\ raw \in TextosVal
           /\ texto = <<>>
           /\ texto2 = <<>>
           /\ doc = <<>>
           /\ refs = <<>>
           /\ relatorio = <<>>
           /\ saida = "none"
           /\ SemLote
           /\ SemLimiter
           /\ ret = <<>>

SpecVal == InitVal /\ [][Next]_vars

(***************************************************************************)
(* downloader.py: _RateLimiter under threads                                *)
(*                                                                         *)
(* The clock counts steps of ten seconds.  Tokens count in parts of        *)
(* 1/JANELA of a token, so that a request costs JANELA parts and a domain  *)
(* of rpm requests a minute gains rpm parts a step.                         *)
(***************************************************************************)
\* the steps of the clock in a minute
JANELA == 6

\* the threads that call aguardar
NFios == 2

\* the calls of aguardar in a run
MaxChamadas == 3

\* the last step of the clock
MaxTempo == 7

\* rate_limit_rpm of the sources of the catalogue
_FONTES == [planalto |-> 1, senado |-> 2]

Dominios == DOMAIN _FONTES

\* _rpm_para_dominio: the limit the catalogue gives for a source
_rpm_para_dominio(fonte) == _FONTES[fonte]

\* _garantir_dominio: a domain is entered at its first call, with a free lock
\* (0), a full bucket and the time of the call
_garantir_dominio(lim, dominio, rpm, agora) ==
  IF dominio \in DOMAIN lim.locks THEN lim
  ELSE [locks  |-> lim.locks @@ (dominio :> 0),
        tokens |-> lim.tokens @@ (dominio :> rpm * JANELA),
        ultimo |-> lim.ultimo @@ (dominio :> agora),
        rpm    |-> lim.rpm @@ (dominio :> rpm)]

\* the bucket of a domain refilled for the time since _ultimo, up to rpm tokens
Reabastecido(lim, dominio, agora) ==
  MinOf({lim.rpm[dominio] * JANELA,
         lim.tokens[dominio] + (agora - lim.ultimo[dominio]) * lim.rpm[dominio]})

\* espera, in steps of the clock: (1.0 - tokens) / taxa
Espera(tokens, rpm) == (JANELA - tokens) \div rpm

FiosParados ==
  [f \in 1..NFios |-> [pc |-> "fora", dominio |-> "", acorda |-> 0]]

\* the calls of aguardar begun so far
Chamadas ==
  Len(retornos) + Cardinality({f \in 1..NFios : fios[f].pc /= "fora"})

InitLimiter == /\ pc = "idle"
               /\ raw = <<>>
               /\ texto = <<>>
               /\ texto2 = <<>>
               /\ doc = <<>>
               /\ refs = <<>>
               /\ relatorio = <<>>
               /\ saida = "none"
               /\ SemLote
               /\ relogio = 0
               /\ limiter = [locks |-> <<>>, tokens |-> <<>>, ultimo |-> <<>>,
                             rpm |-> <<>>]
               /\ fios = FiosParados
               /\ retornos = <<>>
               /\ cache = <<>>
               /\ http = <<>>
               /\ ret = <<>>

\* ten seconds pass
Tick ==
  /\ relogio < MaxTempo
  /\ relogio' = relogio + 1
  /\ UNCHANGED <<pc, raw, texto, texto2, doc, refs, relatorio, saida, loteVars,
                 limiter, fios, retornos, cache, http, ret>>

\* a thread calls aguardar(dominio, rpm) as baixar_lei_url does and passes
\* _garantir_dominio
Aguardar(f, fonte) ==
  /\ fios[f].pc = "fora"
  /\ Chamadas < MaxChamadas
  /\ limiter' = _garantir_dominio(limiter, fonte, _rpm_para_dominio(fonte),
                                  relogio)
  /\ fios' = [fios EXCEPT ![f] = [pc |-> "lock", dominio |-> fonte,
                                  acorda |-> 0]]
  /\ UNCHANGED <<pc, raw, texto, texto2, doc, refs, relatorio, saida, loteVars,
                 relogio, retornos, cache, http, ret>>

\* the thread takes the lock of the domain, finds a token and returns
AguardarPassa(f) ==
  LET d == fios[f].dominio
      tokens == Reabastecido(limiter, d, relogio)
  IN /\ fios[f].pc = "lock"
     /\ limiter.locks[d] = 0
     /\ tokens >= JANELA
     /\ limiter' = [limiter EXCEPT !.ultimo[d] = relogio,
                                   !.tokens[d] = tokens - JANELA]
     /\ fios' = [fios EXCEPT ![f].pc = "fora"]
     /\ retornos' = Append(retornos, [dominio |-> d, t |-> relogio])
     /\ UNCHANGED <<pc, raw, texto, texto2, doc, refs, relatorio, saida,
                    loteVars, relogio, cache, http, ret>>

\* the thread takes the lock of the domain, finds no token and sleeps with the
\* lock held
AguardarDorme(f) ==
  LET d == fios[f].dominio
      tokens == Reabastecido(limiter, d, relogio)
  IN /\ fios[f].pc = "lock"
     /\ limiter.locks[d] = 0
     /\ tokens < JANELA
     /\ limiter' = [limiter EXCEPT !.locks[d] = f,
                                   !.ultimo[d] = relogio,
                                   !.tokens[d] = tokens]
     /\ fios' = [fios EXCEPT ![f].pc = "sleep",
                             ![f].acorda = relogio
                                           + Espera(tokens, limiter.rpm[d])]
     /\ UNCHANGED <<pc, raw, texto, texto2, doc, refs, relatorio, saida,
                    loteVars, relogio, retornos, cache, http, ret>>

\* time.sleep is over: the bucket is emptied, the lock released and aguardar
\* returns
AguardarAcorda(f) ==
  LET d == fios[f].dominio
  IN /\ fios[f].pc = "sleep"
     /\ relogio >= fios[f].acorda
     /\ limiter' = [limiter EXCEPT !.locks[d] = 0, !.tokens[d] = 0]
     /\ fios' = [fios EXCEPT ![f].pc = "fora"]
     /\ retornos' = Append(retornos, [dominio |-> d, t |-> relogio])
     /\ UNCHANGED <<pc, raw, texto, texto2, doc, refs, relatorio, saida,
                    loteVars, relogio, cache, http, ret>>

NextLimiter ==
  \/ Tick
  \/ \E f \in 1..NFios, fonte \in Dominios : Aguardar(f, fonte)
  \/ \E f \in 1..NFios : AguardarPassa(f)
  \/ \E f \in 1..NFios : AguardarDorme(f)
  \/ \E f \in 1..NFios : AguardarAcorda(f)

SpecLimiter == InitLimiter /\ [][NextLimiter]_vars

(***************************************************************************)
(* baixar_lei_url called one call after the other, with the cache on disk   *)
(***************************************************************************)
\* the most calls of baixar_lei_url in a run
MaxPedidos == 3

\* stop_after_attempt(4): the attempts of one _fazer_requisicao
TENTATIVAS == 4

\* the catalogue of laws: the URL and the source of each code
_LEIS == [cp   |-> [url |-> "planalto/cp", fonte |-> "planalto"],
          lei1 |-> [url |-> "senado/lei1", fonte |-> "senado"]]

\* the failed attempts of a request: none, one, all of them
Falhas == {0, 1, TENTATIVAS}

\* the pages a server answers with
Paginas == {<<"a">>, <<"b">>}

\* what a call that raised leaves as its result
Levantou == <<"RAISE">>

\* _cache_path: the file of a URL in CACHE_DIR, named by the digest of the URL
_cache_path(url) == <<"cache/html", url>>

\* _carregar_cache: the bytes of the file of the URL, None when there is none
_carregar_cache(c, url) ==
  IF _cache_path(url) \in DOMAIN c THEN c[_cache_path(url)] ELSE None

\* _salvar_cache: the file of the URL is written, over the one there was
_salvar_cache(c, url, conteudo) ==
  [k \in DOMAIN c \cup {_cache_path(url)} |->
     IF k = _cache_path(url) THEN conteudo ELSE c[k]]

LerCache_sempre(c, url, usar_cache) == _carregar_cache(c, url)

\* html_bytes = _carregar_cache(url) if usar_cache else None
LerCache(c, url, usar_cache) ==
  IF usar_cache THEN _carregar_cache(c, url) ELSE None

\* aguardar called by the only thread there is: the bucket is refilled, a
\* token is spent, or the call sleeps for espera and the bucket is emptied
aguardar(lim, dominio, rpm, agora) ==
  LET l1 == _garantir_dominio(lim, dominio, rpm, agora)
      tokens == Reabastecido(l1, dominio, agora)
  IN IF tokens >= JANELA
     THEN [limiter |-> [l1 EXCEPT !.ultimo[dominio] = agora,
                                  !.tokens[dominio] = tokens - JANELA],
           relogio |-> agora]
     ELSE [limiter |-> [l1 EXCEPT !.ultimo[dominio] = agora,
                                  !.tokens[dominio] = 0],
           relogio |-> agora + Espera(tokens, l1.rpm[dominio])]

\* _fazer_requisicao: a GET for each attempt; after `falhas` failed attempts
\* the page is returned, and the error of the last of TENTATIVAS is raised.
\* The waits between attempts (2 s, 2 s, 4 s) are less than a step of the clock
_fazer_requisicao(url, falhas, pagina) ==
  [gets |-> [i \in 1..MinOf({falhas + 1, TENTATIVAS}) |-> url],
   html_bytes |-> IF falhas >= TENTATIVAS THEN Levantou ELSE pagina]

\* no call made yet: the cache is empty and the limiter knows no domain
InitCache == InitLimiter

\* baixar_lei_url(url, fonte, usar_cache); ret keeps, for each call, its
\* arguments, the bytes handed to the adapter and the GETs it made
BaixarLeiUrl(url, fonte, usar_cache, falhas, pagina) ==
  LET lido == LerCache(cache, url, usar_cache)
      ag == aguardar(limiter, fonte, _rpm_para_dominio(fonte), relogio)
      req == _fazer_requisicao(url, falhas, pagina)
      html_bytes == IF lido = None THEN req.html_bytes ELSE lido
  IN /\ Len(ret) < MaxPedidos
     /\ IF lido = None
        THEN /\ limiter' = ag.limiter
             /\ relogio' = ag.relogio
             /\ retornos' = Append(retornos, [dominio |-> fonte,
                                              t |-> ag.relogio])
             /\ http' = http \o req.gets
             /\ cache' = IF usar_cache /\ req.html_bytes /= Levantou
                         THEN _salvar_cache(cache, url, req.html_bytes)
                         ELSE cache
        ELSE UNCHANGED <<limiter, relogio, retornos, http, cache>>
     /\ ret' = Append(ret, [url |-> url, fonte |-> fonte,
                            usar_cache |-> usar_cache,
                            html_bytes |-> html_bytes,
                            gets |-> IF lido = None THEN Len(req.gets) ELSE 0])
     /\ UNCHANGED <<pc, raw, texto, texto2, doc, refs, relatorio, saida,
                    loteVars, fios>>

NextCache ==
  \/ Tick
  \/ \E codigo \in DOMAIN _LEIS, usar_cache \in BOOLEAN,
        falhas \in Falhas, pagina \in Paginas :
       BaixarLeiUrl(_LEIS[codigo].url, _LEIS[codigo].fonte, usar_cache,
                    falhas, pagina)

SpecCache == InitCache /\ [][NextCache]_vars

(***************************************************************************)
(* parse_lei applied to texts of hierarchy markers                          *)
(***************************************************************************)
\* the longest text of markers, in lines
MaxLinhasHier == 4

\* the lines a text of markers is made of: "PARTE GERAL", "LIVRO I",
\* "TÍTULO I", "CAPÍTULO I", "Seção I", "Subseção I" and "Art. 1º A."
LinhasHier ==
  <<<<"P","A","R","T","E","SP","G","E","R","A","L">>,
    <<"L","I","V","R","O","SP","I">>,
    <<"T","Iac","T","U","L","O","SP","I">>,
    <<"C","A","P","Iac","T","U","L","O","SP","I">>,
    <<"S","e","cced","atil","o","SP","I">>,
    <<"S","u","b","s","e","cced","atil","o","SP","I">>,
    <<"A","r","t",".","SP","1","ordm","SP","A",".">>>>

\* the texts of 1 to MaxLinhasHier lines, no line used twice
TextosHier ==
  {Join(NL, ls) :
     ls \in {q \in SeqsAte(LinhasHier, MaxLinhasHier) :
               \A i, j \in 1..Len(q) : i /= j => q[i] /= q[j]}}

InitHier == /\ pc = "start"
            /\ raw \in TextosHier
            /\ texto = <<>>
            /\ texto2 = <<>>
            /\ doc = <<>>
            /\ refs = <<>>
            /\ relatorio = <<>>
            /\ saida = "none"
            /\ SemLote
            /\ SemLimiter
            /\ ret = <<>>

NextHier == Parse

SpecHier == InitHier /\ [][NextHier]_vars

(***************************************************************************)
(* parse_lei applied to texts of articles of every confidence               *)
(***************************************************************************)
\* the longest text of articles, in lines
MaxLinhasConf == 3

\* the lines a text of articles is made of: "Art. 5º." (short, no caput
\* text), "Art. 5º B" (short), "Art. 1º A.", "§ 1º P." and
\* "Art. 7º referência_interna"
LinhasConf ==
  <<<<"A","r","t",".","SP","5","ordm",".">>,
    <<"A","r","t",".","SP","5","ordm","SP","B">>,
    <<"A","r","t",".","SP","1","ordm","SP","A",".">>,
    <<"sect","SP","1","ordm","SP","P",".">>,
    <<"A","r","t",".","SP","7","ordm","SP","r","e","f","e","r","eci","n","c",
      "i","a","_","i","n","t","e","r","n","a">>>>

\* the texts of 1 to MaxLinhasConf lines
TextosConf == {Join(NL, ls) : ls \in SeqsAte(LinhasConf, MaxLinhasConf)}

InitConf == /\ pc = "start"
            /\ raw \in TextosConf
            /\ texto = <<>>
            /\ texto2 = <<>>
            /\ doc = <<>>
            /\ refs = <<>>
            /\ relatorio = <<>>
            /\ saida = "none"
            /\ SemLote
            /\ SemLimiter
            /\ ret = <<>>

NextConf == Parse

SpecConf == InitConf /\ [][NextConf]_vars

(***************************************************************************)
(* parse_lei applied to texts with article heads split over two lines       *)
(***************************************************************************)
\* the longest text of split heads, in lines
MaxLinhasArt == 4

\* the lines a text of split heads is made of: "Art. 5", ".", the empty
\* line, "Art. 6 B.", "Artes." and "Texto."
LinhasArt ==
  <<<<"A","r","t",".","SP","5">>,
    <<".">>,
    <<>>,
    <<"A","r","t",".","SP","6","SP","B",".">>,
    <<"A","r","t","e","s",".">>,
    <<"T","e","x","t","o",".">>>>

\* the texts of 1 to MaxLinhasArt lines
TextosArt == {Join(NL, ls) : ls \in SeqsAte(LinhasArt, MaxLinhasArt)}

InitArt == /\ pc = "start"
           /\ raw \in TextosArt
           /\ texto = <<>>
           /\ texto2 = <<>>
           /\ doc = <<>>
           /\ refs = <<>>
           /\ relatorio = <<>>
           /\ saida = "none"
           /\ SemLote
           /\ SemLimiter
           /\ ret = <<>>

NextArt == Parse

SpecArt == InitArt /\ [][NextArt]_vars

(***************************************************************************)
(* parse_lei and validar_estrutura applied to texts of heads with and       *)
(* without a caput text                                                     *)
(***************************************************************************)
\* the longest text of heads, in lines
MaxLinhasCaput == 3

\* the lines a text of heads is made of: "Art. 5º", "§ 1º P.", "I - um;",
\* "Art. 6º (Vide Lei nº 1)", "Art. 7º B.", "Art. 8." and
\* "Art. 9º referência_interna"
LinhasCaput ==
  <<<<"A","r","t",".","SP","5","ordm">>,
    <<"sect","SP","1","ordm","SP","P",".">>,
    <<"I","SP","-","SP","u","m",";">>,
    <<"A","r","t",".","SP","6","ordm","SP","(","V","i","d","e","SP","L","e","i","SP","n","ordm","SP","1",")">>,
    <<"A","r","t",".","SP","7","ordm","SP","B",".">>,
    <<"A","r","t",".","SP","8",".">>,
    <<"A","r","t",".","SP","9","ordm","SP","r","e","f","e","r","eci","n","c","i","a","_","i","n","t","e","r","n","a">>>>

\* the texts of 1 to MaxLinhasCaput lines
TextosCaput == {Join(NL, ls) : ls \in SeqsAte(LinhasCaput, MaxLinhasCaput)}

InitCaput == /\ pc = "start"
             /\ raw \in TextosCaput
             /\ texto = <<>>
             /\ texto2 = <<>>
             /\ doc = <<>>
             /\ refs = <<>>
             /\ relatorio = <<>>
             /\ saida = "none"
             /\ SemLote
             /\ SemLimiter
             /\ ret = <<>>

\* validar_estrutura called on the document as parse_lei returned it
ValidarSemReparo ==
  /\ pc = "parsed"
  /\ relatorio' = validar_estrutura(doc)
  /\ pc' = "validado"
  /\ UNCHANGED <<raw, texto, texto2, doc, refs, saida, loteVars, limVars, ret>>

NextCaput == Parse \/ ValidarSemReparo

SpecCaput == InitCaput /\ [][NextCaput]_vars

(***************************************************************************)
(* normalizar_texto applied to its own result                               *)
(***************************************************************************)
\* the longest text, in characters
MaxLen == 4

\* the characters the texts are made of
Alfabeto == <<"a", "NL", "sect", "1", "ordm">>

Curtos == SeqsAte(Alfabeto, MaxLen)

InitNorm == /\ pc = "cru"
            /\ raw \in Curtos
            /\ texto = <<>>
            /\ texto2 = <<>>
            /\ doc = <<>>
            /\ refs = <<>>
            /\ relatorio = <<>>
            /\ saida = "none"
            /\ SemLote
            /\ SemLimiter
            /\ ret = <<>>

\* texto = normalizar_texto(raw)
Normalizar ==
  /\ pc = "cru"
  /\ texto' = Call("normalizar_texto", <<raw>>)
  /\ pc' = "normalizado"
  /\ UNCHANGED <<raw, texto2, doc, refs, relatorio, saida, loteVars, limVars, ret>>

\* texto2 = normalizar_texto(texto)
Renormalizar ==
  /\ pc = "normalizado"
  /\ texto2' = Call("normalizar_texto", <<texto>>)
  /\ pc' = "renormalizado"
  /\ UNCHANGED <<raw, texto, doc, refs, relatorio, saida, loteVars, limVars, ret>>

NextNorm == Normalizar \/ Renormalizar

SpecNorm == InitNorm /\ [][NextNorm]_vars

(***************************************************************************)
(* _detectar_raiz applied to normalised texts of root markers               *)
(***************************************************************************)
\* the longest text of root markers, in lines
MaxLinhasRaiz == 4

\* the lines: "PARTE GERAL", "LIVRO I", "TÍTULO I", "CAPÍTULO I",
\* "Art. 1º A." and "."
LinhasRaiz ==
  <<LinhasHier[1], LinhasHier[2], LinhasHier[3], LinhasHier[4], LinhasHier[7],
    <<".">>>>

TextosRaiz == {Join(NL, ls) : ls \in SeqsAte(LinhasRaiz, MaxLinhasRaiz)}

InitRaiz == /\ pc = "cru"
            /\ raw \in TextosRaiz
            /\ texto = <<>>
            /\ texto2 = <<>>
            /\ doc = <<>>
            /\ refs = <<>>
            /\ relatorio = <<>>
            /\ saida = "none"
            /\ SemLote
            /\ SemLimiter
            /\ ret = <<>>

\* raiz = _detectar_raiz(texto), of the normalised text as parse_lei calls it
DetectarRaiz ==
  /\ pc = "normalizado"
  /\ ret' = Call("_detectar_raiz", <<texto>>)
  /\ pc' = "raiz"
  /\ UNCHANGED <<raw, texto, texto2, doc, refs, relatorio, saida, loteVars,
                 limVars>>

NextRaiz == Normalizar \/ DetectarRaiz

SpecRaiz == InitRaiz /\ [][NextRaiz]_vars

(***************************************************************************)
(* normalizar_texto applied to annotations broken over two lines            *)
(***************************************************************************)
\* what stands before the annotation: nothing, "Art. 1º A. " or "I - x "
AntesDaNota ==
  {<<>>,
   <<"A","r","t",".","SP","1","ordm","SP","A",".","SP">>,
   <<"I","SP","-","SP","x","SP">>}

\* the first line of the annotation, after its "(": "Incluído pela",
\* "Redação dada pela", "Vide" or "Revogado pela"
PrimeiraMetade ==
  {<<"I","n","c","l","u","iac","d","o","SP","p","e","l","a">>,
   <<"R","e","d","a","cced","atil","o","SP","d","a","d","a","SP","p","e","l","a">>,
   <<"V","i","d","e">>,
   <<"R","e","v","o","g","a","d","o","SP","p","e","l","a">>}

\* the second line of the annotation, before its ")": "Lei nº 1",
\* "Lei nº 2, de 2001" or "Emenda nº 3"
SegundaMetade ==
  {<<"L","e","i","SP","n","ordm","SP","1">>,
   <<"L","e","i","SP","n","ordm","SP","2",",","SP","d","e","SP","2","0","0","1">>,
   <<"E","m","e","n","d","a","SP","n","ordm","SP","3">>}

\* what stands after the annotation: nothing, " B." or the line "Art. 2º C."
DepoisDaNota ==
  {<<>>,
   <<"SP","B",".">>,
   <<"NL","A","r","t",".","SP","2","ordm","SP","C",".">>}

\* the texts with one annotation broken after its first half
TextosNota ==
  {a \o <<"(">> \o p \o NL \o s \o <<")">> \o d :
     a \in AntesDaNota, p \in PrimeiraMetade, s \in SegundaMetade,
     d \in DepoisDaNota}

InitNota == /\ pc = "cru"
            /\ raw \in TextosNota
            /\ texto = <<>>
            /\ texto2 = <<>>
            /\ doc = <<>>
            /\ refs = <<>>
            /\ relatorio = <<>>
            /\ saida = "none"
            /\ SemLote
            /\ SemLimiter
            /\ ret = <<>>

NextNota == Normalizar

SpecNota == InitNota /\ [][NextNota]_vars

(***************************************************************************)
(* normalizar_texto applied to lines "a" apart by runs of line breaks       *)
(***************************************************************************)
\* the longest text of lines and line breaks, in characters
MaxLenVazias == 7

\* the texts of the letter a and line breaks
TextosVazias == SeqsAte(<<"a", "NL">>, MaxLenVazias)

InitVazias == /\ pc = "cru"
              /\ raw \in TextosVazias
              /\ texto = <<>>
              /\ texto2 = <<>>
              /\ doc = <<>>
              /\ refs = <<>>
              /\ relatorio = <<>>
              /\ saida = "none"
              /\ SemLote
              /\ SemLimiter
              /\ ret = <<>>

NextVazias == Normalizar

SpecVazias == InitVazias /\ [][NextVazias]_vars

(***************************************************************************)
(* normalizar_texto applied to hierarchy keywords left alone on a line      *)
(***************************************************************************)
\* the longest text of keywords and the lines after them, in lines
MaxLinhasJunta == 3

\* the lines of such a text: "PARTE", "LIVRO I", "CAPÍTULO", "II",
\* "I - um;" and "Do Poder"
LinhasJunta ==
  <<<<"P","A","R","T","E">>,
    <<"L","I","V","R","O","SP","I">>,
    <<"C","A","P","Iac","T","U","L","O">>,
    <<"I","I">>,
    <<"I","SP","-","SP","u","m",";">>,
    <<"D","o","SP","P","o","d","e","r">>>>

\* the texts of 1 to MaxLinhasJunta lines
TextosJunta == {Join(NL, ls) : ls \in SeqsAte(LinhasJunta, MaxLinhasJunta)}

InitJunta == /\ pc = "cru"
             /\ raw \in TextosJunta
             /\ texto = <<>>
             /\ texto2 = <<>>
             /\ doc = <<>>
             /\ refs = <<>>
             /\ relatorio = <<>>
             /\ saida = "none"
             /\ SemLote
             /\ SemLimiter
             /\ ret = <<>>

NextJunta == Normalizar

SpecJunta == InitJunta /\ [][NextJunta]_vars

(***************************************************************************)
(* extrair_paragrafos applied to the text of one article                    *)
(***************************************************************************)
\* the most lines after the head line of the article
MaxLinhasPar == 3

\* the head line "Art. 1º C."
LinhaCaput == <<"A","r","t",".","SP","1","ordm","SP","C",".">>

\* the lines after it: "§ 1º A", "§ 2º B", "Parágrafo único. C", "§ 1º-A D"
\* and "ver o § 1º"
LinhasPar ==
  <<<<"sect","SP","1","ordm","SP","A">>,
    <<"sect","SP","2","ordm","SP","B">>,
    <<"P","a","r","aac","g","r","a","f","o","SP","uac","n","i","c","o",".",
      "SP","C">>,
    <<"sect","SP","1","ordm","-","A","SP","D">>,
    <<"v","e","r","SP","o","SP","sect","SP","1","ordm">>>>

TextosPar ==
  {Join(NL, <<LinhaCaput>> \o ls) : ls \in SeqsAte(LinhasPar, MaxLinhasPar)}

InitPar == /\ pc = "artigo"
           /\ raw \in TextosPar
           /\ texto = <<>>
           /\ texto2 = <<>>
           /\ doc = <<>>
           /\ refs = <<>>
           /\ relatorio = <<>>
           /\ saida = "none"
           /\ SemLote
           /\ SemLimiter
           /\ ret = <<>>

\* ret = extrair_paragrafos(raw)
ExtrairParagrafos ==
  /\ pc = "artigo"
  /\ ret' = Call("extrair_paragrafos", <<raw>>)
  /\ pc' = "paragrafos"
  /\ UNCHANGED <<raw, texto, texto2, doc, refs, relatorio, saida, loteVars,
                 limVars>>

NextPar == ExtrairParagrafos

SpecPar == InitPar /\ [][NextPar]_vars

(***************************************************************************)
(* extrair_incisos applied to the text of one block                         *)
(***************************************************************************)
\* the most inciso markers of a text
MaxIncisos == 3

\* the texts before the first marker: none, and "princípios:"
Preambulos ==
  <<<<>>, <<<<"p","r","i","n","c","iac","p","i","o","s",":">>>>>>

\* an inciso in each spelling of its marker: "I" with the dash on the next
\* line, "II - b", "III – c", "IV-d" and "V-A - e"
LinhasInciso ==
  <<<<"I","NL","-","SP","a">>,
    <<"I","I","SP","-","SP","b">>,
    <<"I","I","I","SP","ndash","SP","c">>,
    <<"I","V","-","d">>,
    <<"V","-","A","SP","-","SP","e">>>>

TextosInc ==
  {Join(NL, Preambulos[k] \o ls) :
     k \in 1..Len(Preambulos), ls \in SeqsAte(LinhasInciso, MaxIncisos)}

InitInc == /\ pc = "bloco"
           /\ raw \in TextosInc
           /\ texto = <<>>
           /\ texto2 = <<>>
           /\ doc = <<>>
           /\ refs = <<>>
           /\ relatorio = <<>>
           /\ saida = "none"
           /\ SemLote
           /\ SemLimiter
           /\ ret = <<>>

\* ret = extrair_incisos(raw)
ExtrairIncisos ==
  /\ pc = "bloco"
  /\ ret' = Call("extrair_incisos", <<raw>>)
  /\ pc' = "incisos"
  /\ UNCHANGED <<raw, texto, texto2, doc, refs, relatorio, saida, loteVars,
                 limVars>>

NextInc == ExtrairIncisos

SpecInc == InitInc /\ [][NextInc]_vars

(***************************************************************************)
(* extrair_metadados applied to annotations of one or two lead words        *)
(***************************************************************************)
\* the lead words of _PAT_META, in the order of the pattern
PalavrasDeNota ==
  <<<<"R","e","d","a","cced","atil","o","SP","d","a","d","a">>,
    <<"I","n","c","l","u","iac","d","o">>,
    <<"R","e","v","o","g","a","d","o">>,
    <<"V","i","d","e">>,
    <<"R","e","n","u","m","e","r","a","d","o">>,
    <<"V","i","g","eci","n","c","i","a">>,
    <<"A","c","r","e","s","c","i","d","o">>,
    <<"S","u","p","r","i","m","i","d","o">>,
    <<"A","l","t","e","r","a","d","o">>,
    <<"V","E","T","A","D","O">>>>

\* the annotations "(W)" and "(W, V)" of lead words W and V, as written and in
\* lower case, after the text "x "
TextosMeta ==
  LET n == Len(PalavrasDeNota)
      notas == {PalavrasDeNota[i] : i \in 1..n}
                 \cup {PalavrasDeNota[i] \o <<",","SP">> \o PalavrasDeNota[j] :
                         i \in 1..n, j \in 1..n}
  IN {<<"x","SP","(">> \o nota \o <<")">> : nota \in notas}
       \cup {<<"x","SP","(">> \o PalavrasDeNota[i] \o <<",","SP">>
               \o LowerStr(PalavrasDeNota[j]) \o <<")">> :
               i \in 1..n, j \in 1..n}

InitMeta == /\ pc = "nota"
            /\ raw \in TextosMeta
            /\ texto = <<>>
            /\ texto2 = <<>>
            /\ doc = <<>>
            /\ refs = <<>>
            /\ relatorio = <<>>
            /\ saida = "none"
            /\ SemLote
            /\ SemLimiter
            /\ ret = <<>>

\* ret = extrair_metadados(raw)
ExtrairMetadados ==
  /\ pc = "nota"
  /\ ret' = Call("extrair_metadados", <<raw>>)
  /\ pc' = "metadados"
  /\ UNCHANGED <<raw, texto, texto2, doc, refs, relatorio, saida, loteVars,
                 limVars>>

NextMeta == ExtrairMetadados

SpecMeta == InitMeta /\ [][NextMeta]_vars

(***************************************************************************)
(* extrair_crossrefs applied to the text of one article                     *)
(***************************************************************************)
\* the longest article text, in phrases
MaxFrases == 2

\* "art. 5º"
ART_5 == <<"a","r","t",".","SP","5","ordm">>

\* an anchor phrase of each kind, each ending in a space
Ancoras ==
  <<<<"n","o","s","SP","t","e","r","m","o","s","SP","d","o","SP">>,
    <<"c","o","n","f","o","r","m","e","SP","d","i","s","p","o","s","t","o","SP",
      "n","o","SP">>,
    <<"d","i","s","p","o","s","t","o","SP","n","o","SP">>,
    <<"p","r","e","v","i","s","t","o","SP","n","o","SP">>,
    <<"n","a","SP","f","o","r","m","a","SP","d","o","SP">>,
    <<"n","o","s","SP","m","o","l","d","e","s","SP","d","o","SP">>,
    <<"a","SP","q","u","e","SP","s","e","SP","r","e","f","e","r","e","SP">>,
    <<"r","e","f","e","r","i","d","o","SP","n","o","SP">>>>

\* the phrases an article text is made of: the anchors, "art. 5º", ", § 1º",
\* "da Lei nº 9.394, " and "o "
Frases ==
  Ancoras \o
  <<ART_5,
    <<",","SP","sect","SP","1","ordm">>,
    <<"d","a","SP","L","e","i","SP","n","ordm","SP","9",".","3","9","4",",","SP">>,
    <<"o","SP">>>>

TextosDeArtigo == {Flatten(fs) : fs \in SeqsAte(Frases, MaxFrases)}

\* the id of the article the text belongs to
ORIGEM == <<"l","e","i","-","1","-","a","r","t","-","1">>

InitXref == /\ pc = "texto"
            /\ raw \in TextosDeArtigo
            /\ texto = <<>>
            /\ texto2 = <<>>
            /\ doc = <<>>
            /\ refs = <<>>
            /\ relatorio = <<>>
            /\ saida = "none"
            /\ SemLote
            /\ SemLimiter
            /\ ret = <<>>

\* refs = extrair_crossrefs(raw, ORIGEM, CODIGO)
ExtrairRefs ==
  /\ pc = "texto"
  /\ refs' = Call("extrair_crossrefs", <<raw, ORIGEM, CODIGO>>)
  /\ pc' = "extraido"
  /\ UNCHANGED <<raw, texto, texto2, doc, relatorio, saida, loteVars, limVars, ret>>

NextXref == ExtrairRefs

SpecXref == InitXref /\ [][NextXref]_vars

C2_IdsUnicos ==
  pc = "parsed" =>
    LET arts == iterar_artigos(doc)
    IN \A j, k \in 1..Len(arts) : j /= k => arts[j].id /= arts[k].id

\* the pieces of the normalised text, cut at its line-start article heads, that
\* the assembler accepts
CabecasAceitas(t) ==
  LET partes == Split0(_SPLIT_ARTIGO, t, FALSE)
  IN {k \in 1..Len(partes) : ArtigoAceito(Strip(partes[k]))}

\* C3: every accepted article head of the normalised text yields exactly one
\* article of the document, whatever the root kind and wherever the head stands
C3_CabecasMantidas ==
  pc = "parsed" =>
    Len(iterar_artigos(doc)) = Cardinality(CabecasAceitas(texto))

\* C4: no content dict of the document has both incisos and alineas, and the
\* content of an inciso has no incisos
C4_IncisosOuAlineas ==
  pc = "parsed" =>
    LET arts == iterar_artigos(doc)
        UmDosDois(c) == Lista(c, "incisos") = <<>> \/ Lista(c, "alineas") = <<>>
    IN \A a \in 1..Len(arts) :
         \A b \in 1..Len(arts[a].estrutura) :
           LET c == arts[a].estrutura[b].conteudo
           IN /\ UmDosDois(c)
              /\ \A i \in 1..Len(Lista(c, "incisos")) :
                   /\ UmDosDois(c.incisos[i].conteudo)
                   /\ "incisos" \notin DOMAIN c.incisos[i].conteudo

\* a caput has an inciso that has an alinea
C4_Witness ==
  /\ pc = "parsed"
  /\ LET arts == iterar_artigos(doc)
     IN \E a \in 1..Len(arts) :
          \E b \in 1..Len(arts[a].estrutura) :
            LET c == arts[a].estrutura[b].conteudo
            IN \E i \in 1..Len(Lista(c, "incisos")) :
                 Lista(c.incisos[i].conteudo, "alineas") /= <<>>

\* no character of s ends a line
SemQuebra(s) == \A k \in 1..Len(s) : s[k] \notin LineBreaks

\* C5: no texto, no norma and no ementa of the document returned by parse_lei
\* contains a line-break character
C5_SemQuebraDeLinha ==
  pc = "parsed" =>
    LET arts == iterar_artigos(doc)
    IN /\ SemQuebra(doc.lei.ementa)
       /\ \A a \in 1..Len(arts) :
            \A b \in 1..Len(arts[a].estrutura) :
              LET c == arts[a].estrutura[b].conteudo
                  textos == TextosConteudo(c)
                  metas == MetasConteudo(c)
              IN /\ \A i \in 1..Len(textos) : SemQuebra(textos[i])
                 /\ \A i \in 1..Len(metas) : SemQuebra(metas[i].norma)

\* the ementa ran over a line break, and so did the text of a block
C5_Witness ==
  /\ pc = "parsed"
  /\ Contains(doc.lei.ementa, <<"x","SP">>)
  /\ LET arts == iterar_artigos(doc)
     IN \E a \in 1..Len(arts) :
          /\ Contains(arts[a].texto_bruto, <<"P","NL","Q">>)
          /\ \E b \in 1..Len(arts[a].estrutura) :
               Contains(arts[a].estrutura[b].conteudo.texto, <<"P","SP","Q">>)

\* C10: for a document with an article or more, the accuracy ratio of the
\* validation is 1 - (articles whose estrutura is empty / articles), also when
\* empty articles share an id
C10_Precisao ==
  (pc = "done" /\ relatorio.total_artigos > 0) =>
    LET arts == validator_coletar_artigos(doc)
        vazios == Cardinality({k \in 1..Len(arts) : arts[k].estrutura = <<>>})
    IN Precisao(relatorio).num * Len(arts)
         = (Len(arts) - vazios) * Precisao(relatorio).den

C13_SoCamposReparados ==
  [][(pc = "parsed" /\ pc' = "reparado") =>
       LET antes == iterar_artigos(doc)
           depois == iterar_artigos(doc')
           fixos(a) == [c \in DOMAIN a \ {"numero", "estrutura", "confianca",
                                          "reparado_ia"} |-> a[c]]
       IN /\ Len(depois) = Len(antes)
          /\ SubstituiArtigos(doc', antes, 0).no = doc
          /\ \A k \in 1..Len(antes) :
               /\ fixos(depois[k]) = fixos(antes[k])
               /\ depois[k] /= antes[k] =>
                    /\ antes[k].confianca < CONF_REPARO
                    /\ Len(antes[k].texto_bruto) > 0
                    /\ "reparado_ia" \in DOMAIN depois[k]
          /\ (\A k \in 1..Len(depois) : "reparado_ia" \notin DOMAIN depois[k])
               => doc' = doc]_vars

\* the repair replaced an article under another number and left another
\* article of the document alone
C13_Witness ==
  /\ pc = "reparado"
  /\ LET arts == iterar_artigos(doc)
     IN \E j, k \in 1..Len(arts) :
          /\ "reparado_ia" \in DOMAIN arts[j]
          /\ arts[j].numero = <<"9">>
          /\ "reparado_ia" \notin DOMAIN arts[k]

\* the place of a kind in the precedence parte > livro > titulo > capitulo >
\* secao > subsecao > artigo
Precedencia(kind) ==
  CASE kind = "parte" -> 1
    [] kind = "livro" -> 2
    [] kind = "titulo" -> 3
    [] kind = "capitulo" -> 4
    [] kind = "secao" -> 5
    [] kind = "subsecao" -> 6
    [] kind = "artigo" -> 7

\* the children of a hierarchy node
FilhosDe(node) ==
  IF "filhos" \in DOMAIN node THEN node.filhos
  ELSE IF "artigos" \in DOMAIN node THEN node.artigos
  ELSE <<>>

RECURSIVE BemAninhado(_)
\* every child below node is of a strictly lower kind than its parent
BemAninhado(node) ==
  \A k \in 1..Len(FilhosDe(node)) :
    /\ Precedencia(FilhosDe(node)[k].tipo) > Precedencia(node.tipo)
    /\ BemAninhado(FilhosDe(node)[k])

\* C14: in the document returned by parse_lei the children of every hierarchy
\* node are articles or nodes of a strictly lower kind, never of the same or a
\* higher kind
C14_PrecedenciaEstrita ==
  pc = "parsed" =>
    \A k \in 1..Len(doc.titulos) : BemAninhado(doc.titulos[k])

\* a titulo holds a capitulo that holds a secao that holds an article
C14_Witness ==
  /\ pc = "parsed"
  /\ \E k \in 1..Len(doc.titulos) :
       LET t == doc.titulos[k]
       IN /\ t.tipo = "titulo"
          /\ \E c \in 1..Len(FilhosDe(t)) :
               /\ FilhosDe(t)[c].tipo = "capitulo"
               /\ \E x \in 1..Len(FilhosDe(FilhosDe(t)[c])) :
                    LET se == FilhosDe(FilhosDe(t)[c])[x]
                    IN /\ se.tipo = "secao"
                       /\ \E a \in 1..Len(FilhosDe(se)) :
                            FilhosDe(se)[a].tipo = "artigo"

\* a marker of the kind and its numeral (GERAL or ESPECIAL too for parte),
\* alone on a line
MarcadorSozinho(kind) ==
  CASE kind = "parte" -> Cat(<<KW_PARTE, Ws1, NumParte, Ws0, Eos>>)
    [] kind = "livro" -> Cat(<<KW_LIVRO, Ws1, Romanos1, Ws0, Eos>>)
    [] kind = "titulo" -> Cat(<<KW_TITULO, Ws1, RomanosLetra, Ws0, Eos>>)
    [] kind = "capitulo" -> Cat(<<KW_CAPITULO, Ws1, RomanosLetra, Ws0, Eos>>)

\* the root of the rule: the kind whose marker line comes first, livro left
\* out when each of its marker lines is followed by a line of one punctuation
\* mark, "artigo" when no kind is left
RaizEsperada(t) ==
  LET ls == SplitLines(t)
      cab(kind) == {k \in 1..Len(ls) :
                      Match(MarcadorSozinho(kind), ls[k], TRUE).ok}
      citado(k) ==
        SoPontuacao(PrimeiraNaoVazia(SubSeq(ls, k + 1, Len(ls))))
      cands == {kind \in {"parte", "livro", "titulo", "capitulo"} :
                  /\ cab(kind) /= {}
                  /\ kind = "livro" => \E k \in cab("livro") : ~citado(k)}
  IN IF cands = {} THEN "artigo"
     ELSE CHOOSE c \in cands :
            \A d \in cands : MinOf(cab(c)) <= MinOf(cab(d))

\* C20: _detectar_raiz returns the kind, among parte, livro, titulo and
\* capitulo, whose marker alone on its line comes first; livro is no candidate
\* when every livro head is followed by a lone punctuation line; "artigo" is
\* returned when no candidate is left
C20_RaizDetectada ==
  pc = "raiz" => ret = RaizEsperada(texto)

(***************************************************************************)
(* Properties of extrair_paragrafos                                         *)
(***************************************************************************)
\* "Parágrafo único" at the start of a line
MarcadorUnico ==
  Cat(<<Lit(<<"P","a","r","aac","g","r","a","f","o">>), Ws1,
        Lit(<<"uac","n","i","c","o">>)>>)

\* "§" and a number at the start of a line: group 1 is the first run of
\* digits, group 2 the letter suffix "-A" when the marker has one
MarcadorNumerado ==
  Cat(<<Ch({"sect"}), Ws0, Grp(1, Digits1), Opt(Ch(Ordinal)),
        Grp(2, Opt(Cat(<<Ch({"-"}), Ch(AsciiLetter)>>)))>>)

\* the lines of an article text, after its first, that start with a paragraph
\* marker
LinhasDeParagrafo(t) ==
  SelectSeq(Tail(SplitLines(t)),
            LAMBDA l : \/ Match(MarcadorUnico, l, TRUE).ok
                       \/ Match(MarcadorNumerado, l, TRUE).ok)

\* the blocks are a caput and then one paragrafo per marker line, in order,
\* numbered by numero
ParagrafosNumerados(t, blocos, numero(_)) ==
  LET ms == LinhasDeParagrafo(t)
  IN /\ Len(blocos) = Len(ms) + 1
     /\ blocos[1].tipo = "caput"
     /\ \A k \in 1..Len(ms) :
          /\ blocos[k + 1].tipo = "paragrafo"
          /\ blocos[k + 1].numero = numero(ms[k])

\* "único", or the first run of digits of the marker
SoDigitos(l) ==
  IF Match(MarcadorUnico, l, TRUE).ok THEN <<"uac","n","i","c","o">>
  ELSE Group(l, Match(MarcadorNumerado, l, TRUE), 1)

\* "único", or the first run of digits of the marker and its letter suffix
DigitosESufixo(l) ==
  IF Match(MarcadorUnico, l, TRUE).ok THEN <<"uac","n","i","c","o">>
  ELSE LET m == Match(MarcadorNumerado, l, TRUE)
       IN Group(l, m, 1)
          \o SelectSeq(Group(l, m, 2), LAMBDA x : x \notin Ordinal)

\* C15 as claimed: one paragrafo per line-start marker, in order, numbered
\* "único" or by the first run of digits of its marker, so "§ 1º-A" is "1"
C15_NumeroSoDigitos ==
  pc = "paragrafos" => ParagrafosNumerados(raw, ret, SoDigitos)

\* C15 amended: one paragrafo per line-start marker, in order, numbered "único"
\* or by the first run of digits of its marker followed by the marker's letter
\* suffix, ordinal glyphs removed, so "§ 1º-A" is "1-A"
C15_NumeroComSufixo ==
  pc = "paragrafos" => ParagrafosNumerados(raw, ret, DigitosESufixo)

\* the text had a "§ 1º-A" marker, a "Parágrafo único" marker and a line that
\* cites a paragraph without being one
C15_Witness ==
  /\ pc = "paragrafos"
  /\ \E k \in 2..Len(ret) : ret[k].numero = <<"1","-","A">>
  /\ \E k \in 2..Len(ret) : ret[k].numero = <<"uac","n","i","c","o">>
  /\ Len(ret) < Len(SplitLines(raw))

(***************************************************************************)
(* Properties of extrair_incisos                                            *)
(***************************************************************************)
\* a line that begins with an inciso marker: a roman numeral with an optional
\* letter suffix, followed by a dash or alone on its line
LinhaDeInciso ==
  Cat(<<Grp(1, Cat(<<Rep(Ch(Roman), 1, 7),
                     Opt(Cat(<<Ch({"-"}), Ch(AsciiUpper)>>))>>)),
        Bl0, Alt(<<Ch({"-", "x96", "ndash", "mdash"}), Eos>>)>>)

\* the numerals of the marker lines of a text, in order
NumeraisDe(t) ==
  LET ls == SplitLines(t)
      marcadas == SelectSeq(ls, LAMBDA l : Match(LinhaDeInciso, l, FALSE).ok)
  IN [k \in 1..Len(marcadas) |->
        Group(marcadas[k], Match(LinhaDeInciso, marcadas[k], FALSE), 1)]

\* C16: a text of an optional preamble and k lines that begin with an inciso
\* marker gives exactly k incisos, one per marker and in order, each numbered
\* by its marker's numeral, the marker on the first line of the text included
C16_UmIncisoPorMarcador ==
  pc = "incisos" =>
    /\ "incisos" \in DOMAIN ret
    /\ [k \in 1..Len(ret.incisos) |-> ret.incisos[k].numero] = NumeraisDe(raw)

(***************************************************************************)
(* Properties of run_batch                                                  *)
(***************************************************************************)
\* C12: when run_batch has finished, every code of the list has been attempted
\* and is recorded as an "ok" result or as an error
C12_LoteCompleto ==
  lote \in {"fim", "SystemExit"} =>
    /\ idx = Len(codigos)
    /\ Len(resultados) + Len(erros) = Len(codigos)
    /\ \A k \in 1..Len(codigos) :
         \/ \E j \in 1..Len(resultados) : resultados[j].codigo = codigos[k]
         \/ \E j \in 1..Len(erros) : erros[j].codigo = codigos[k]

(***************************************************************************)
(* Properties of normalizar_texto                                           *)
(***************************************************************************)
\* C6: normalizar_texto(normalizar_texto(x)) = normalizar_texto(x)
C6_Idempotente == pc = "renormalizado" => texto2 = texto

(***************************************************************************)
(* Properties of extrair_crossrefs                                          *)
(***************************************************************************)
\* the anchor phrases of the disambiguation rule: nos termos do/da(s),
\* (conforme) disposto no/na(s), previsto no/na(s), na forma do/da(s), nos
\* moldes do/da(s), a que se refere(m), referido(s) no/na(s)
FraseAncora ==
  Alt(<<
    Cat(<<Lit(<<"n","o","s">>), Ws1, Lit(<<"t","e","r","m","o","s">>), Ws1,
          DoDa>>),
    Cat(<<Opt(Cat(<<Lit(<<"c","o","n","f","o","r","m","e">>), Ws1>>)),
          Lit(<<"d","i","s","p","o","s","t","o">>), Ws1, NoNa>>),
    Cat(<<Lit(<<"p","r","e","v","i","s","t","o">>), Ws1, NoNa>>),
    Cat(<<Lit(<<"n","a">>), Ws1, Lit(<<"f","o","r","m","a">>), Ws1, DoDa>>),
    Cat(<<Lit(<<"n","o","s">>), Ws1, Lit(<<"m","o","l","d","e","s">>), Ws1, DoDa>>),
    Cat(<<A_QUE_SE_REFERE, Opt(Ch({"m"}))>>),
    REFERIDOS>>)

\* (a): an anchor phrase stands immediately before the article token of match
\* m, the "art." that precedes the number
AncoraAntesDoArtigo(t, m) ==
  Search(Cat(<<FraseAncora, Ws0, Lit(<<"a","r","t">>),
               Opt(Lit(<<"i","g","o">>)), Opt(Ch({"s"})), Opt(Ch({"."})), Ws0,
               Eos>>),
         SubSeq(t, 1, m.g[1][1] - 1), TRUE).ok

\* (c): an external law is found in the 60 characters before the match plus
\* the match
LeiExternaDetectada(t, m) ==
  Search(_RE_LEI_OUTRA, ContextoAntes(t, m) \o Strip(Whole(t, m)), TRUE).ok

\* the matches of the "art. N" pattern that rules (a), (b), (c) keep
MatchesMantidos(t) ==
  SelectSeq(FindAll(_RE_CROSSREF, t, TRUE),
            LAMBDA m : \/ AncoraAntesDoArtigo(t, m)
                       \/ TemDetalhe(t, m)
                       \/ LeiExternaDetectada(t, m))

\* C7: a match of the "art. N" pattern is emitted if and only if (a) an anchor
\* phrase stands immediately before the article token, (b) a paragraph or
\* inciso was captured, or (c) an external law was detected
C7_Desambiguacao ==
  pc = "extraido" =>
    LET ms == MatchesMantidos(raw)
    IN /\ Len(refs) = Len(ms)
       /\ \A k \in 1..Len(ms) : refs[k].destino_art = Group(raw, ms[k], 1)

\* C8: an anchor phrase immediately before a single "art. 5º", with no
\* paragraph, inciso or external law, yields exactly one reference, to "5º"
\* and with no external law
C8_AncoraUnica ==
  (pc = "extraido" /\ \E k \in 1..Len(Ancoras) : raw = Ancoras[k] \o ART_5) =>
    /\ Len(refs) = 1
    /\ refs[1].destino_art = <<"5","ordm">>
    /\ refs[1].lei_externa = None

\* C9: every reference has exactly the eight fields, origem is the id of the
\* article the text belongs to and trecho has at most 120 characters
C9_OitoCampos ==
  pc = "extraido" =>
    \A k \in 1..Len(refs) :
      /\ DOMAIN refs[k] = {"origem", "destino_art", "destino_para",
                           "destino_inc", "destino_alinea", "lei_externa",
                           "id_resolvido", "trecho"}
      /\ refs[k].origem = ORIGEM
      /\ Len(refs[k].trecho) <= 120

\* the confidences of the articles of a document, in document order
ConfiancasDe(d) ==
  [k \in 1..Len(iterar_artigos(d)) |-> iterar_artigos(d)[k].confianca]

\* C17: every article of a document returned by parse_lei has a confidence
\* between 0.1 and 1.0 (10 and 100 hundredths)
C17_ConfiancaNoIntervalo ==
  pc = "parsed" =>
    \A k \in 1..Len(ConfiancasDe(doc)) :
      ConfiancasDe(doc)[k] >= 10 /\ ConfiancasDe(doc)[k] <= 100

\* a document with an article at the floor of 0.1 and one at 1.0
C17_Witness ==
  /\ pc = "parsed"
  /\ \E j, k \in 1..Len(ConfiancasDe(doc)) :
       ConfiancasDe(doc)[j] = 10 /\ ConfiancasDe(doc)[k] = 100

\* the ids of the articles at the positions S of arts
IdsEm(arts, S) == {arts[k].id : k \in S}

\* C18: the report of validar_estrutura names exactly the ids carried by more
\* than one article and exactly the ids of the articles with an empty
\* estrutura, counts every article of the tree, and the tree is the same after
\* the validation as before
C18_RelataSemCorrigir ==
  [][(pc = "refs" /\ pc' = "done") =>
       LET arts == iterar_artigos(doc)
           N == Len(arts)
       IN /\ doc' = doc
          /\ relatorio'.total_artigos = N
          /\ relatorio'.ids_duplicados =
               IdsEm(arts, {j \in 1..N : \E i \in 1..N :
                                           i /= j /\ arts[i].id = arts[j].id})
          /\ relatorio'.artigos_vazios =
               IdsEm(arts, {j \in 1..N : arts[j].estrutura = <<>>})]_vars

\* a validated tree with an id carried twice, an empty article and an article
\* that is neither
C18_Witness ==
  /\ pc = "done"
  /\ relatorio.total_artigos = 3
  /\ Cardinality(relatorio.ids_duplicados) = 1
  /\ Cardinality(relatorio.artigos_vazios) = 1
  /\ relatorio.ids_duplicados /= relatorio.artigos_vazios

\* the calls of aguardar for domain d that returned in the minute from step t
RetornosNaJanela(d, t) ==
  Cardinality({k \in 1..Len(retornos) :
                 /\ retornos[k].dominio = d
                 /\ retornos[k].t >= t
                 /\ retornos[k].t < t + JANELA})

\* C19: in every window of 60 seconds at most rpm calls of aguardar return for
\* a domain, whatever the order of the calls and of the threads
C19_NoMaximoRpm ==
  \A d \in DOMAIN limiter.rpm :
    \A t \in 0..MaxTempo : RetornosNaJanela(d, t) <= limiter.rpm[d]

\* a line that begins an article: "Art." and a digit after optional blanks
ComecaArtigo(l) ==
  /\ StartsWith(l, <<"A","r","t",".">>)
  /\ \E k \in 5..Len(l) :
       /\ l[k] \in Digit
       /\ \A j \in 5..(k - 1) : l[j] = "SP"

\* the lines of the raw text, one more than its line breaks
LinhasCruas(t) ==
  LET quebras == SelectSeq([k \in 1..Len(t) |-> IF t[k] = "NL" THEN k ELSE 0],
                           LAMBDA k : k > 0)
      n == Len(quebras)
  IN [j \in 1..(n + 1) |->
        SubSeq(t, IF j = 1 THEN 1 ELSE quebras[j - 1] + 1,
                  IF j > n THEN Len(t) ELSE quebras[j] - 1)]

\* the first line after index k that is not empty, or the empty line
TerceiraLinha(ls, k) ==
  LET cheias == {j \in (k + 1)..Len(ls) : ls[j] /= <<>>}
  IN IF cheias = {} THEN <<>> ELSE ls[MinOf(cheias)]

\* the positions of the bare heads "Art. 5" that are to give an article: all
\* but those followed by a lone "." and then by the head of another article
CabecasQueValem(ls) ==
  {i \in 1..Len(ls) :
     /\ ls[i] = <<"A","r","t",".","SP","5">>
     /\ ~(/\ i + 1 <= Len(ls)
          /\ ls[i + 1] = <<".">>
          /\ ComecaArtigo(TerceiraLinha(ls, i + 1)))}

\* C21: a bare head "Art. N" followed by a lone "." gives no article when the
\* next non-blank line begins an article, and gives an article numbered N
\* otherwise
C21_CabecaPartida ==
  pc = "parsed" =>
    LET arts == iterar_artigos(doc)
    IN Cardinality({k \in 1..Len(arts) : arts[k].numero = <<"5">>})
         = Cardinality(CabecasQueValem(LinhasCruas(raw)))

\* the text with the first line break after its first "(" turned into a space
NotaReunida(t) ==
  LET abre == MinOf({k \in 1..Len(t) : t[k] = "("})
      quebra == MinOf({k \in abre..Len(t) : t[k] = "NL"})
  IN [k \in 1..Len(t) |-> IF k = quebra THEN "SP" ELSE t[k]]

\* C22: an annotation broken over two lines comes out of normalizar_texto in
\* one line, its line break turned into a space and no other character added,
\* removed or repeated
C22_NotaReunida ==
  pc = "normalizado" => texto = NL \o NotaReunida(raw)

\* the blank lines between each two lines of text that follow one another: a
\* run of n line breaks between two characters holds n - 1 blank lines
LinhasVaziasEntre(t) ==
  LET fins == SelectSeq([k \in 1..Len(t) |->
                           IF /\ k > 1 /\ k < Len(t)
                              /\ t[k] = "NL" /\ t[k + 1] /= "NL"
                              /\ \E j \in 1..(k - 1) : t[j] /= "NL"
                           THEN k ELSE 0],
                        LAMBDA k : k > 0)
  IN [j \in 1..Len(fins) |->
        fins[j] - MaxOf({k \in 1..fins[j] : t[k] /= "NL"}) - 1]

\* C23: a run of 3 or more blank lines of the input is a run of exactly 2 blank
\* lines in the output of normalizar_texto, no run of the output is longer,
\* and the output begins with a line break
C23_DuasLinhasVazias ==
  pc = "normalizado" =>
    LET antes == LinhasVaziasEntre(raw)
        depois == LinhasVaziasEntre(texto)
    IN /\ Len(texto) > 0 /\ texto[1] = "NL"
       /\ Len(depois) = Len(antes)
       /\ \A j \in 1..Len(antes) :
            /\ antes[j] >= 3 => depois[j] = 2
            /\ depois[j] <= 2

\* the text begins with the keyword of an article and a numeral
ComecaComCabeca(t) ==
  /\ StartsWith(t, <<"A","r","t">>)
  /\ \E k \in 4..Len(t) :
       /\ t[k] \in Digit
       /\ \A j \in 4..(k - 1) : t[j] \in {".", "SP"}

\* the caput blocks of an article
CaputsDe(artigo) ==
  SelectSeq(artigo.estrutura, LAMBDA b : b.tipo = "caput")

\* C24: the text of the caput of an article never begins with the head
\* "Art. N", also when the head line has no text of its own and a paragraph
\* follows it
C24_CaputSemCabeca ==
  pc = "parsed" =>
    \A k \in 1..Len(iterar_artigos(doc)) :
      \A j \in 1..Len(CaputsDe(iterar_artigos(doc)[k])) :
        ~ComecaComCabeca(CaputsDe(iterar_artigos(doc)[k])[j].conteudo.texto)

\* 1 when the condition holds, 0 when it does not
Vale(cond) == IF cond THEN 1 ELSE 0

\* the article has no caput block with a text of its own
SemTextoDeCaput(artigo) ==
  \A j \in 1..Len(CaputsDe(artigo)) :
    CaputsDe(artigo)[j].conteudo.texto = <<>>

\* the confidence of the formula, in hundredths, for the segment kept in
\* texto_bruto
ConfiancaDaFormula(artigo) ==
  LET seg == artigo.texto_bruto
      c == 100 - 30 * Vale(~StartsWith(seg, <<"A","r","t">>))
               - 50 * Vale(Len(seg) < 10)
               - 20 * Vale(\E k \in 1..(Len(seg) - 17) :
                             SubSeq(seg, k, k + 17)
                               = SubSeq(REF_INTERNA, 1, 18))
               - 40 * Vale(SemTextoDeCaput(artigo))
  IN IF c < 10 THEN 10 ELSE c

\* C25: the confidence of every article is 1.0 less 0.3 for a segment that does
\* not begin with the keyword, 0.5 for a segment under 10 characters, 0.2 for
\* the tag of an internal reference and 0.4 for a caput without text, and 0.1
\* at least
C25_FormulaDaConfianca ==
  pc = "parsed" =>
    \A k \in 1..Len(iterar_artigos(doc)) :
      iterar_artigos(doc)[k].confianca
        = ConfiancaDaFormula(iterar_artigos(doc)[k])

\* an article whose caput has items and no text of its own, with the penalty
\* of 0.4
C25_Witness ==
  /\ pc = "parsed"
  /\ \E k \in 1..Len(iterar_artigos(doc)) :
       LET a == iterar_artigos(doc)[k]
       IN /\ a.estrutura[1].tipo = "caput"
          /\ a.estrutura[1].conteudo.texto = <<>>
          /\ "incisos" \in DOMAIN a.estrutura[1].conteudo
          /\ a.confianca = 60

\* C28: every article of a document returned by parse_lei has a caput block
\* first and only paragraphs after it, and validar_estrutura on that document
\* lists no article as empty
C28_CaputPrimeiro ==
  /\ pc \in {"parsed", "validado"} =>
       \A k \in 1..Len(iterar_artigos(doc)) :
         LET e == iterar_artigos(doc)[k].estrutura
         IN /\ Len(e) >= 1
            /\ e[1].tipo = "caput"
            /\ \A j \in 2..Len(e) : e[j].tipo = "paragrafo"
  /\ pc = "validado" => relatorio.artigos_vazios = {}

\* a validated document with an article of a caput and a paragraph and an
\* article whose caput has no text
C28_Witness ==
  /\ pc = "validado"
  /\ relatorio.total_artigos >= 2
  /\ \E k \in 1..Len(iterar_artigos(doc)) :
       Len(iterar_artigos(doc)[k].estrutura) = 2
  /\ \E k \in 1..Len(iterar_artigos(doc)) :
       iterar_artigos(doc)[k].estrutura[1].conteudo.texto = <<>>

\* the annotation of a text, from its "(" to its ")"
NotaDe(t) ==
  SubSeq(t, MinOf({k \in 1..Len(t) : t[k] = "("}),
            MinOf({k \in 1..Len(t) : t[k] = ")"}))

\* s occurs in t
Ocorre(s, t) ==
  \E k \in 1..(Len(t) - Len(s) + 1) : SubSeq(t, k, k + Len(s) - 1) = s

\* the kind of the first entry of the order whose word occurs in the
\* annotation, whatever the case of its letters; "None" when no entry does
PrimeiraDaOrdem(ordem, nota) ==
  LET achadas == {k \in 1..Len(ordem) : Ocorre(ordem[k][1], LowerStr(nota))}
  IN IF achadas = {} THEN "None" ELSE ordem[MinOf(achadas)][2]

\* the order Redação dada, Incluído, Revogado, Vide, Vigência, Acrescido,
\* Suprimido, Alterado, VETADO; the kinds have no name for Suprimido and
\* Alterado
OrdemDoVocabulario ==
  <<<<<<"r","e","d","a","cced","atil","o","SP","d","a","d","a">>, "redacao">>,
    <<<<"i","n","c","l","u","iac","d">>, "incluido">>,
    <<<<"r","e","v","o","g","a","d">>, "revogado">>,
    <<<<"v","i","d","e">>, "vide">>,
    <<<<"v","i","g","eci","n","c","i","a">>, "vigencia">>,
    <<<<"a","c","r","e","s","c","i","d">>, "acrescido">>,
    <<<<"s","u","p","r","i","m","i","d">>, "None">>,
    <<<<"a","l","t","e","r","a","d">>, "None">>,
    <<<<"v","e","t","a","d","o">>, "vetado">>>>

\* the order redação dada, incluíd, revogad, renumerado, vide, vigência, vetado,
\* acrescid
OrdemDaCadeia ==
  <<<<<<"r","e","d","a","cced","atil","o","SP","d","a","d","a">>, "redacao">>,
    <<<<"i","n","c","l","u","iac","d">>, "incluido">>,
    <<<<"r","e","v","o","g","a","d">>, "revogado">>,
    <<<<"r","e","n","u","m","e","r","a","d","o">>, "renumerado">>,
    <<<<"v","i","d","e">>, "vide">>,
    <<<<"v","i","g","eci","n","c","i","a">>, "vigencia">>,
    <<<<"v","e","t","a","d","o">>, "vetado">>,
    <<<<"a","c","r","e","s","c","i","d">>, "acrescido">>>>

\* C26 as stated: the kind of an annotation is that of the first of Redação
\* dada, Incluído, Revogado, Vide, Vigência, Acrescido, Suprimido, Alterado,
\* VETADO that occurs in it
C26_OrdemDoVocabulario ==
  pc = "metadados" =>
    /\ Len(ret.metas) = 1
    /\ ret.metas[1].tipo = PrimeiraDaOrdem(OrdemDoVocabulario, NotaDe(raw))

\* C26 amended: the kind of an annotation is that of the first of redação dada,
\* incluíd, revogad, renumerado, vide, vigência, vetado, acrescid that occurs in
\* it, and null when none does
C26_OrdemDaCadeia ==
  pc = "metadados" =>
    /\ Len(ret.metas) = 1
    /\ ret.metas[1].tipo = PrimeiraDaOrdem(OrdemDaCadeia, NotaDe(raw))

\* the annotation "(Acrescido, VETADO)" classified as vetado
C26_Witness ==
  /\ pc = "metadados"
  /\ Ocorre(<<"a","c","r","e","s","c","i","d","o">>, LowerStr(NotaDe(raw)))
  /\ Ocorre(<<"v","e","t","a","d","o">>, LowerStr(NotaDe(raw)))
  /\ ret.metas[1].tipo = "vetado"

(***************************************************************************)
(* C27: the cache of downloads                                              *)
(***************************************************************************)
\* a step that is a call of baixar_lei_url
UmaChamada == Len(ret') = Len(ret) + 1

\* the call a step made
AChamada == ret'[Len(ret')]

\* C27: over the calls of baixar_lei_url made one after the other, (a) a call
\* with usar_cache whose URL is in the cache makes no HTTP request and does not
\* wait on the rate limiter, and returns the bytes of the cache; (b) a download
\* with usar_cache that succeeded leaves its bytes in the cache, and no call
\* removes or changes the bytes of another URL, so that the later calls with
\* usar_cache for the URL are calls of (a); (c) a call without usar_cache
\* leaves the cache as it was and makes its request whatever the cache holds
C27_CacheDeDownloads ==
  [][UmaChamada =>
       LET c == AChamada
           k == _cache_path(c.url)
       IN /\ (c.usar_cache /\ k \in DOMAIN cache) =>
               /\ http' = http
               /\ retornos' = retornos
               /\ limiter' = limiter
               /\ relogio' = relogio
               /\ cache' = cache
               /\ c.html_bytes = cache[k]
          /\ (c.usar_cache /\ k \notin DOMAIN cache
                /\ c.html_bytes /= Levantou) =>
               /\ k \in DOMAIN cache'
               /\ cache'[k] = c.html_bytes
          /\ \A j \in DOMAIN cache :
               j \in DOMAIN cache' /\ (j /= k => cache'[j] = cache[j])
          /\ ~c.usar_cache =>
               /\ cache' = cache
               /\ Len(http') > Len(http)
               /\ Len(retornos') = Len(retornos) + 1]_vars

\* a download with usar_cache that succeeded, then a call without usar_cache
\* for the same URL that made its request, then a call with usar_cache for it
\* that made none and returned the bytes of the first
C27_Witness ==
  \E i, j, m \in DOMAIN ret :
    /\ i < j /\ j < m
    /\ ret[i].url = ret[j].url /\ ret[j].url = ret[m].url
    /\ ret[i].usar_cache /\ ret[i].gets > 0 /\ ret[i].html_bytes /= Levantou
    /\ ~ret[j].usar_cache /\ ret[j].gets > 0
    /\ ret[j].html_bytes /= ret[i].html_bytes
    /\ ret[m].usar_cache /\ ret[m].gets = 0
    /\ ret[m].html_bytes = ret[i].html_bytes

(***************************************************************************)
(* C29: the articles counted for each node of the top level                 *)
(***************************************************************************)
RECURSIVE SomaDosValores(_, _)
\* the sum of the values a mapping gives to the keys of S
SomaDosValores(f, S) ==
  IF S = {} THEN 0
  ELSE LET k == CHOOSE x \in S : TRUE
       IN f[k] + SomaDosValores(f, S \ {k})

\* C29: in every validation report the counts of artigos_por_titulo sum to
\* total_artigos, also when nodes of the top level share numero and nome and
\* when the top level is a flat list of articles
C29_SomaPorTitulo ==
  pc = "done" =>
    SomaDosValores(relatorio.artigos_por_titulo,
                   DOMAIN relatorio.artigos_por_titulo)
      = relatorio.total_artigos

(***************************************************************************)
(* C30: what the rejoining of hierarchy markers joins                       *)
(***************************************************************************)
\* the line begins a hierarchy marker, a keyword and its roman numeral, or an
\* item marker, a roman numeral and its dash
ComecaMarcador(l) ==
  \/ \E kw \in {<<"P","A","R","T","E">>, <<"L","I","V","R","O">>,
                <<"T","Iac","T","U","L","O">>,
                <<"C","A","P","Iac","T","U","L","O">>} :
       /\ StartsWith(l, kw \o SP)
       /\ Len(l) > Len(kw) + 1
       /\ l[Len(kw) + 2] \in Roman
  \/ \E k \in 1..(Len(l) - 2) :
       /\ \A j \in 1..k : l[j] \in Roman
       /\ l[k + 1] = "SP"
       /\ l[k + 2] = "-"

\* the lines of ls that begin with the line l
LinhasQueComecam(ls, l) == {k \in 1..Len(ls) : StartsWith(ls[k], l)}

\* C30: the rejoining of hierarchy markers joins a keyword with the line after
\* it only when that line is the roman numeral of the keyword: a line of the
\* input that begins a hierarchy marker or an item marker still begins a line
\* of the normalized text, as many times as in the input
C30_MarcadoresNoComeco ==
  pc = "normalizado" =>
    LET cruas == LinhasCruas(raw)
        limpas == LinhasCruas(texto)
    IN \A k \in 1..Len(cruas) :
         ComecaMarcador(cruas[k]) =>
           Cardinality(LinhasQueComecam(limpas, cruas[k]))
             >= Cardinality({j \in 1..Len(cruas) : cruas[j] = cruas[k]})

====
